---- MODULE Spec2Model ----
(***************************************************************************)
(* Model of the oobleck pipeline executor:                                 *)
(*   - OobleckPipelineSchedule (execution/pipeline.py), the 1F1B schedule  *)
(*     generator, stepped one yield at a time (SpecSchedule);              *)
(*   - OobleckPipeline.train on S stages with blocking P2P between         *)
(*     adjacent stages (SpecPipeline);                                     *)
(*   - ExecutionEngine.execute / reconfigure and the failure watcher       *)
(*     thread (engine/execution_engine.py) (SpecEngine);                   *)
(*   - one call of OobleckPipeline.__init__ (SpecConstruct).               *)
(***************************************************************************)
EXTENDS Integers, Sequences, FiniteSets, TLC

\* ------------------------------------------------------------------ bounds
MaxMicroBatches == 3
MaxStages == 3
MaxBatches == 2         \* train() calls per stage
MaxTensors == 2         \* tensors in the tuple a stage sends downstream
MaxFailures == 1        \* failure notifications delivered to this worker
MaxIterators == 2       \* dataloader iterators the caller creates
MaxNodes == 1           \* largest node count a template is planned for
BatchLen == 2           \* pipeline instructions of one execute_pipeline run
MaxHistory == 3         \* completed calls the caller's history keeps
MaxGpusPerNode == 2     \* accelerators per stage of a template
MaxLayersPerStage == 2  \* layers of each stage of a template
MaxReplicas == 2        \* pipelines the world's ranks are divided among

VARIABLES
    \* --- OobleckPipelineSchedule generator (SpecSchedule)
    micro_batches,          \* self.micro_batches
    stages,                 \* self.stages
    stage_id,               \* self.stage_id
    step_id,                \* loop variable of steps()
    prev_micro_batch_id,    \* local of steps()
    yielded,                \* the step groups yielded so far, in order
    exhausted               \* the for loop of steps() has ended

VARIABLES
    \* --- OobleckPipeline / PipelineExecution / PipelineCommunication, one
    \* entry per stage of one pipeline (SpecPipeline)
    train_pc,               \* position of train(): idle, running, raised, hung
    sched_step,             \* step_id of the stage's running steps() generator
    sched_prev,             \* prev_micro_batch_id of that generator
    cmds,                   \* instructions of the current step group still to run
    pipe_buffers,           \* self.pipe_buffers: inputs and outputs slots
    sent_activation_meta,   \* PipelineCommunication.sent_activation_meta
    activation_recv_buf,    \* PipelineCommunication.activation_recv_buf
    grad_recv_buf,          \* PipelineCommunication.grad_recv_buf
    loss,                   \* PipelineExecution.loss
    global_steps,           \* OobleckPipeline.global_steps
    data_iterator,          \* number of next(self.data_iterator) calls so far
    output_layout,          \* tensors the layers of a non-last stage return
    p2p,                    \* per stage: messages sent/received, allocations
    last_grad,              \* per link: the last gradient transfer
    samples_log             \* per stage: global step of each write_samples_logs()

VARIABLES
    \* --- ExecutionEngine, its caller and its watcher threads (SpecEngine)
    eng_pc,                 \* position of the principal task
    pipeline_templates,     \* self.pipeline_templates (set: not None)
    booster,                \* self.booster is not None
    dist_initialized,       \* dist.is_initialized()
    notification_receiver_thread,   \* 0: None, else the id of the thread
    need_reconfiguration,   \* self.need_reconfiguration
    watcher_pc,             \* position of each watcher thread
    comm_up,                \* the communicator exists and is not shut down
    pending,                \* failure notifications not yet received
    failures,               \* peer failures so far
    invalidated,            \* attribute "invalidated" of each iterator
    cur_iter,               \* dataloader_iterator of the current execute
    instr_done,             \* instructions run by the current execute
    call,                   \* the caller's view of the last call
    handed,                 \* templates handed to the PipelineInstantiator
    returned,               \* outcomes of the last completed calls, oldest first
    watcher_log             \* per watcher thread: what it has done, in order

VARIABLES
    \* --- one call of OobleckPipeline.__init__ (SpecConstruct)
    init_pc,                \* none, called, returned, raised
    init_args,              \* arguments: ranks, the template's stages, ...
    get_rank,               \* dist.get_rank() of the process
    self_attrs,             \* the attributes bound on self so far
    init_error              \* the exception __init__ raised, if any

initVars == <<init_pc, init_args, get_rank, self_attrs, init_error>>

engVars == <<eng_pc, pipeline_templates, booster, dist_initialized,
             notification_receiver_thread, need_reconfiguration, watcher_pc,
             comm_up, pending, failures, invalidated, cur_iter, instr_done,
             call, handed, returned, watcher_log>>

schedVars == <<micro_batches, stages, stage_id, step_id, prev_micro_batch_id,
               yielded, exhausted>>
pipeVars == <<train_pc, sched_step, sched_prev, cmds, pipe_buffers,
              sent_activation_meta, activation_recv_buf, grad_recv_buf, loss,
              global_steps, data_iterator, output_layout, p2p, last_grad,
              samples_log>>

vars == <<schedVars, pipeVars, engVars, initVars>>

\* ------------------------------------------------- schedule helper methods
\* Instruction names of deepspeed.runtime.pipe.schedule used by steps().
SendGrad == "SendGrad"
RecvActivation == "RecvActivation"
RecvGrad == "RecvGrad"
SendActivation == "SendActivation"
LoadMicroBatch == "LoadMicroBatch"
ForwardPass == "ForwardPass"
BackwardPass == "BackwardPass"

\* An instruction carries buffer_id (its only kwarg).  The field mb is a
\* ghost annotation: the micro batch the buffer_id was computed from.
Instr(op, buf, mb) == [op |-> op, buffer_id |-> buf, mb |-> mb]

RECURSIVE Flatten(_)
Flatten(groups) ==
    IF groups = <<>> THEN <<>> ELSE Head(groups) \o Flatten(Tail(groups))

_is_even(x) == x % 2 = 0
_is_odd(x) == x % 2 # 0

_even_step_forward_id(s, t) == (t \div 2) - (s \div 2)
_odd_step_forward_id(s, t) == ((t - 1) \div 2) - (s \div 2)
_even_step_backward_id(S, s, t) == (t \div 2) - S + ((s + 1) \div 2)
_odd_step_backward_id(S, s, t) == (((t - 1) \div 2) - S + 1) + (s \div 2)

\* (micro_batch_id, is_forward) of step t on stage s of S stages.
_step_to_micro_batch(S, s, t) ==
    IF _is_even(t) /\ _is_even(s) THEN <<_even_step_forward_id(s, t), TRUE>>
    ELSE IF _is_odd(t) /\ _is_odd(s) THEN <<_odd_step_forward_id(s, t), TRUE>>
    ELSE IF _is_even(t) /\ _is_odd(s) THEN <<_even_step_backward_id(S, s, t), FALSE>>
    ELSE <<_odd_step_backward_id(S, s, t), FALSE>>

_valid_micro_batch(M, mb) == 0 <= mb /\ mb < M
_valid_stage_incl(S, s) == 0 <= s /\ s <= S
_valid_stage(S, s) == 0 <= s /\ s < S

Min(a, b) == IF a < b THEN a ELSE b
Max(a, b) == IF a > b THEN a ELSE b

num_pipe_buffers_min1(M, S, s) ==
    LET buffers == Min(S - s, M) IN Max(1, buffers)

num_pipe_buffers_fewer(M, S, s) ==
    LET buffers == Min(S - s, M) - 1 IN Max(2, buffers)

num_pipe_buffers(M, S, s) ==
    LET buffers == Min(S - s, M) IN Max(2, buffers)

_buffer_idx(M, S, s, mb) == mb % num_pipe_buffers(M, S, s)

total_steps_short(M, S) == 2 * (M + S - 1) - 1
total_steps(M, S) == 2 * (M + S - 1)

\* StepCmds with the computation appended before the first/last stage load.
StepCmds_compute_first(M, S, s, t, prev) ==
    LET mbf == _step_to_micro_batch(S, s, t)
        mb == mbf[1]
        cb == mb % Max(2, Min(S - s, M))
        pb == prev % Max(2, Min(S - s, M))
        pv == 0 <= prev /\ prev < M
        cv == 0 <= mb /\ mb < M
    IN (IF mbf[2]
        THEN (IF pv /\ s > 0 THEN <<Instr(SendGrad, pb, prev)>> ELSE <<>>)
             \o (IF cv /\ s > 0 THEN <<Instr(RecvActivation, cb, mb)>> ELSE <<>>)
        ELSE (IF cv /\ s < S - 1 THEN <<Instr(RecvGrad, cb, mb)>> ELSE <<>>)
             \o (IF pv /\ s < S - 1 THEN <<Instr(SendActivation, pb, prev)>> ELSE <<>>))
       \o (IF cv THEN <<Instr(IF mbf[2] THEN ForwardPass ELSE BackwardPass, cb, mb)>>
                 ELSE <<>>)
       \o (IF (s = 0 \/ s = S - 1) /\ mbf[2] /\ cv
            THEN <<Instr(LoadMicroBatch, cb, mb)>> ELSE <<>>)

\* StepCmds with SendActivation appended before RecvGrad in a backward step.
StepCmds_send_first(M, S, s, t, prev) ==
    LET mbf == _step_to_micro_batch(S, s, t)
        mb == mbf[1]
        cb == mb % Max(2, Min(S - s, M))
        pb == prev % Max(2, Min(S - s, M))
        pv == 0 <= prev /\ prev < M
        cv == 0 <= mb /\ mb < M
    IN (IF mbf[2]
        THEN (IF pv /\ s > 0 THEN <<Instr(SendGrad, pb, prev)>> ELSE <<>>)
             \o (IF cv /\ s > 0 THEN <<Instr(RecvActivation, cb, mb)>> ELSE <<>>)
        ELSE (IF pv /\ s < S - 1 THEN <<Instr(SendActivation, pb, prev)>> ELSE <<>>)
             \o (IF cv /\ s < S - 1 THEN <<Instr(RecvGrad, cb, mb)>> ELSE <<>>))
       \o (IF (s = 0 \/ s = S - 1) /\ mbf[2] /\ cv
            THEN <<Instr(LoadMicroBatch, cb, mb)>> ELSE <<>>)
       \o (IF cv THEN <<Instr(IF mbf[2] THEN ForwardPass ELSE BackwardPass, cb, mb)>>
                 ELSE <<>>)

\* The list cmds built by one iteration of the loop of steps().
StepCmds(M, S, s, t, prev) ==
    LET mbf == _step_to_micro_batch(S, s, t)
        micro_batch_id == mbf[1]
        is_forward == mbf[2]
        prev_buffer == _buffer_idx(M, S, s, prev)
        curr_buffer == _buffer_idx(M, S, s, micro_batch_id)
        prev_stage == s - 1
        next_stage == s + 1
        exchange ==
            IF is_forward
            THEN (IF _valid_micro_batch(M, prev) /\ _valid_stage(S, prev_stage)
                  THEN <<Instr(SendGrad, prev_buffer, prev)>> ELSE <<>>)
                 \o
                 (IF _valid_micro_batch(M, micro_batch_id) /\ _valid_stage(S, prev_stage)
                  THEN <<Instr(RecvActivation, curr_buffer, micro_batch_id)>> ELSE <<>>)
            ELSE (IF _valid_micro_batch(M, micro_batch_id) /\ _valid_stage(S, next_stage)
                  THEN <<Instr(RecvGrad, curr_buffer, micro_batch_id)>> ELSE <<>>)
                 \o
                 (IF _valid_micro_batch(M, prev) /\ _valid_stage(S, next_stage)
                  THEN <<Instr(SendActivation, prev_buffer, prev)>> ELSE <<>>)
        load ==
            IF (s = 0 \/ s = S - 1) /\ is_forward /\ _valid_micro_batch(M, micro_batch_id)
            THEN <<Instr(LoadMicroBatch, curr_buffer, micro_batch_id)>> ELSE <<>>
        compute ==
            IF _valid_micro_batch(M, micro_batch_id)
            THEN (IF is_forward
                  THEN <<Instr(ForwardPass, curr_buffer, micro_batch_id)>>
                  ELSE <<Instr(BackwardPass, curr_buffer, micro_batch_id)>>)
            ELSE <<>>
    IN exchange \o load \o compute

\* The pipeline part of the state when no pipeline is constructed.
PipelineUnused ==
    /\ train_pc = <<>> /\ sched_step = <<>> /\ sched_prev = <<>>
    /\ cmds = <<>> /\ pipe_buffers = <<>> /\ sent_activation_meta = <<>>
    /\ activation_recv_buf = <<>> /\ grad_recv_buf = <<>> /\ loss = <<>>
    /\ global_steps = <<>> /\ data_iterator = 0 /\ output_layout = <<>>
    /\ p2p = <<>> /\ last_grad = <<>> /\ samples_log = <<>>

\* The engine part of the state when no engine is constructed.
EngineUnused ==
    /\ eng_pc = "none" /\ pipeline_templates = <<>> /\ booster = FALSE
    /\ dist_initialized = FALSE /\ notification_receiver_thread = 0
    /\ need_reconfiguration = FALSE /\ watcher_pc = <<>> /\ comm_up = FALSE
    /\ pending = 0 /\ failures = 0 /\ invalidated = <<>> /\ cur_iter = 0
    /\ instr_done = 0 /\ call = <<>> /\ handed = {}
    /\ returned = <<>> /\ watcher_log = <<>>

\* The constructor part of the state when no __init__ call is followed.
ConstructUnused ==
    /\ init_pc = "none" /\ init_args = <<>> /\ get_rank = 0
    /\ self_attrs = <<>> /\ init_error = ""

\* plugin.reconfigure(): the new layout runs against a new communicator.
plugin_reconfigure == TRUE

\* ------------------------------------------------ SpecSchedule: steps()
InitSchedule ==
    /\ micro_batches \in 1..MaxMicroBatches
    /\ stages \in 1..MaxStages
    /\ stage_id \in 0..(MaxStages - 1)
    /\ stage_id < stages
    /\ step_id = 0
    /\ prev_micro_batch_id = -1
    /\ yielded = <<>>
    /\ exhausted = FALSE
    /\ PipelineUnused
    /\ EngineUnused
    /\ ConstructUnused

\* One iteration of the for loop of steps(): build cmds, yield it.
StepsYield ==
    /\ ~exhausted
    /\ step_id < total_steps(micro_batches, stages)
    /\ yielded' = Append(yielded,
            StepCmds(micro_batches, stages, stage_id, step_id, prev_micro_batch_id))
    /\ prev_micro_batch_id' = _step_to_micro_batch(stages, stage_id, step_id)[1]
    /\ step_id' = step_id + 1
    /\ UNCHANGED <<micro_batches, stages, stage_id, exhausted>>
    /\ UNCHANGED <<pipeVars, engVars, initVars>>

\* range(total_steps) is used up: the generator returns.
StepsReturn ==
    /\ ~exhausted
    /\ ~(step_id < total_steps(micro_batches, stages))
    /\ exhausted' = TRUE
    /\ UNCHANGED <<micro_batches, stages, stage_id, step_id,
                   prev_micro_batch_id, yielded>>
    /\ UNCHANGED <<pipeVars, engVars, initVars>>

NextSchedule == StepsYield \/ StepsReturn

SpecSchedule == InitSchedule /\ [][NextSchedule]_vars

\* ------------------------------------------------ tensors and P2P messages
\* dtype code table of oobleck.execution.utils (DTYPE_TO_ID / ID_TO_DTYPE).
DTYPES == <<"float16", "bfloat16", "float32", "float64", "int8", "int16",
            "int32", "int64", "bool", "uint8">>
DTYPE_TO_ID == [d \in {DTYPES[i] : i \in 1..Len(DTYPES)} |->
                    (CHOOSE i \in 1..Len(DTYPES) : DTYPES[i] = d) - 1]
ID_TO_DTYPE == [i \in 0..(Len(DTYPES) - 1) |-> DTYPES[i + 1]]

\* Attributes of the tensors a stage can return.
TensorKinds ==
    { [shape |-> <<2, 3>>, dtype |-> "float32", requires_grad |-> TRUE],
      [shape |-> <<2, 3>>, dtype |-> "float32", requires_grad |-> FALSE],
      [shape |-> <<2>>, dtype |-> "int64", requires_grad |-> FALSE],
      [shape |-> <<3>>, dtype |-> "float16", requires_grad |-> TRUE] }

Layouts == UNION {[1..n -> TensorKinds] : n \in 0..MaxTensors}

\* A tensor: its attributes and whether .grad is populated.
Tensor(shape, dtype, requires_grad, has_grad) ==
    [shape |-> shape, dtype |-> dtype, requires_grad |-> requires_grad,
     has_grad |-> has_grad]

\* A pipe_buffers slot: None, or a tuple of tensors.  mb and batch are ghost
\* fields: the micro batch and batch the data in the slot was computed from.
NoneSlot == [set |-> FALSE, tensors |-> <<>>, mb |-> -1, batch |-> -1]
Slot(tensors, mb, batch) ==
    [set |-> TRUE, tensors |-> tensors, mb |-> mb, batch |-> batch]

\* A receive buffer attribute of PipelineCommunication: None or a tuple.
NoneBuf == [alloc |-> FALSE, bufs |-> <<>>, mb |-> -1, batch |-> -1]

\* One dist.send: a LongTensor of integers, or the data of a tensor.  pos is
\* a ghost field: the tuple index of the tensor a gradient belongs to.
Long(ints) ==
    [kind |-> "long", ints |-> ints, shape |-> <<>>, dtype |-> "int64", pos |-> 0]
Payload(shape, dtype, pos) ==
    [kind |-> "tensor", ints |-> <<>>, shape |-> shape, dtype |-> dtype, pos |-> pos]

\* _send_activation_meta: the messages sent for the tuple buffer, in order.
_send_activation_meta(buffer) ==
    <<Long(<<Len(buffer)>>)>>
    \o Flatten([i \in 1..Len(buffer) |->
            <<Long(<<Len(buffer[i].shape)>>),
              Long(<<DTYPE_TO_ID[buffer[i].dtype]>>),
              Long(buffer[i].shape),
              Long(<<IF buffer[i].requires_grad THEN 1 ELSE 0>>)>>])

\* send_activations that sends the metadata on every call.
send_activations_always_meta(outputs, sent_meta) ==
    _send_activation_meta(outputs)
    \o [i \in 1..Len(outputs) |-> Payload(outputs[i].shape, outputs[i].dtype, i)]

\* send_activations: all messages of one call, given outputs[buffer_id].
send_activations(outputs, sent_meta) ==
    (IF ~sent_meta THEN _send_activation_meta(outputs) ELSE <<>>)
    \o [i \in 1..Len(outputs) |-> Payload(outputs[i].shape, outputs[i].dtype, i)]

\* The receiver of create_receive_buffer can take the messages of wire.
MetaReceivable(wire) ==
    /\ Len(wire) >= 1
    /\ wire[1].kind = "long" /\ Len(wire[1].ints) = 1
    /\ LET num_tensors == wire[1].ints[1] IN
        /\ Len(wire) >= 1 + 4 * num_tensors
        /\ \A i \in 1..num_tensors :
            LET base == 1 + 4 * (i - 1) IN
            /\ \A k \in 1..4 : wire[base + k].kind = "long"
            /\ Len(wire[base + 1].ints) = 1
            /\ Len(wire[base + 2].ints) = 1
            /\ wire[base + 2].ints[1] \in DOMAIN ID_TO_DTYPE
            /\ Len(wire[base + 3].ints) = wire[base + 1].ints[1]
            /\ Len(wire[base + 4].ints) = 1

\* create_receive_buffer that allocates every buffer without requires_grad.
create_receive_buffer_nograd(wire) ==
    LET num_tensors == wire[1].ints[1] IN
    [i \in 1..num_tensors |->
        LET base == 1 + 4 * (i - 1) IN
        Tensor(wire[base + 3].ints, ID_TO_DTYPE[wire[base + 2].ints[1]],
               FALSE, FALSE)]

\* create_receive_buffer: the buffers allocated from the received metadata.
create_receive_buffer(wire) ==
    LET num_tensors == wire[1].ints[1] IN
    [i \in 1..num_tensors |->
        LET base == 1 + 4 * (i - 1)
            recv_ndims == wire[base + 1].ints[1]
            recv_dtype == ID_TO_DTYPE[wire[base + 2].ints[1]]
            recv_shape == wire[base + 3].ints
            recv_req_grad == (wire[base + 4].ints[1] = 1)
        IN Tensor(recv_shape, recv_dtype, recv_req_grad, FALSE)]

\* Metadata envelopes (0 or 1) and payload messages among the messages wire.
EnvelopesIn(wire) == IF Len(wire) > 0 /\ wire[1].kind = "long" THEN 1 ELSE 0
PayloadsIn(wire) == Cardinality({i \in 1..Len(wire) : wire[i].kind = "tensor"})

\* Number of messages create_receive_buffer consumes.
MetaLen(wire) == 1 + 4 * wire[1].ints[1]

\* The payload messages rest fit the receive buffers bufs one for one.
PayloadReceivable(bufs, rest) ==
    /\ Len(rest) = Len(bufs)
    /\ \A i \in 1..Len(bufs) :
        /\ rest[i].kind = "tensor"
        /\ rest[i].shape = bufs[i].shape
        /\ rest[i].dtype = bufs[i].dtype

\* recv_activations: the tuple stored in inputs[buffer_id].
recv_activations(bufs) ==
    [idx \in 1..Len(bufs) |->
        Tensor(bufs[idx].shape, bufs[idx].dtype, bufs[idx].requires_grad, FALSE)]

RECURSIVE send_gradients_all(_, _)
\* send_gradients without the requires_grad filter.
send_gradients_all(inputs, i) ==
    IF i > Len(inputs) THEN <<>>
    ELSE <<Payload(inputs[i].shape, inputs[i].dtype, i)>>
         \o send_gradients_all(inputs, i + 1)

RECURSIVE send_gradients(_, _)
\* send_gradients: the .grad messages sent for inputs[buffer_id], from index i.
send_gradients(inputs, i) ==
    IF i > Len(inputs) THEN <<>>
    ELSE (IF ~inputs[i].requires_grad THEN <<>>
          ELSE <<Payload(inputs[i].shape, inputs[i].dtype, i)>>)
         \o send_gradients(inputs, i + 1)

\* The assertions of send_gradients on .grad hold for inputs.
GradsAsExpected(inputs) ==
    \A i \in 1..Len(inputs) : inputs[i].has_grad = inputs[i].requires_grad

RECURSIVE create_gradients_buffer(_, _)
\* create_gradients_buffer: zeros_like of each tensor that requires grad.
create_gradients_buffer(tensors, i) ==
    IF i > Len(tensors) THEN <<>>
    ELSE (IF tensors[i].requires_grad
          THEN <<[shape |-> tensors[i].shape, dtype |-> tensors[i].dtype, pos |-> i]>>
          ELSE <<>>)
         \o create_gradients_buffer(tensors, i + 1)

\* _prepare_inputs of one batch of the dataloader: input ids, not floating.
PreparedBatch == <<Tensor(<<2>>, "int64", FALSE, FALSE)>>

\* Backward populates .grad of every input that requires grad.
WithGrads(slot) ==
    IF slot.set
    THEN [slot EXCEPT !.tensors =
            [i \in 1..Len(slot.tensors) |->
                [slot.tensors[i] EXCEPT !.has_grad = slot.tensors[i].requires_grad]]]
    ELSE slot

\* ------------------------------------------------ SpecPipeline: train()
StageIds == 0..(stages - 1)

\* The template's stages cover the layers [0, L) in order: the stage with
\* index 0 owns layer 0 and the stage with index S-1 owns layer L-1.
is_first_stage(s) == s = 0
is_last_stage(s) == s = stages - 1

NoCounts ==
    [sends |-> 0, recvs |-> 0, meta_sent |-> 0, meta_recvd |-> 0,
     payload_sent |-> 0, payload_recvd |-> 0, recv_allocs |-> 0,
     grad_sent |-> 0, grad_recvd |-> 0, grad_allocs |-> 0]

InitPipeline ==
    /\ micro_batches \in 1..MaxMicroBatches
    /\ stages \in 1..MaxStages
    /\ stage_id = 0 /\ step_id = 0 /\ prev_micro_batch_id = -1
    /\ yielded = <<>> /\ exhausted = FALSE
    /\ output_layout \in Layouts
    /\ train_pc = [s \in StageIds |-> "idle"]
    /\ sched_step = [s \in StageIds |-> 0]
    /\ sched_prev = [s \in StageIds |-> -1]
    /\ cmds = [s \in StageIds |-> <<>>]
    /\ pipe_buffers = [s \in StageIds |->
            LET n == num_pipe_buffers(micro_batches, stages, s) IN
            [inputs |-> [b \in 0..(n - 1) |-> NoneSlot],
             outputs |-> [b \in 0..(n - 1) |-> NoneSlot]]]
    /\ sent_activation_meta = [s \in StageIds |-> FALSE]
    /\ activation_recv_buf = [s \in StageIds |-> NoneBuf]
    /\ grad_recv_buf = [s \in StageIds |-> NoneBuf]
    /\ loss = [s \in StageIds |-> NoneSlot]
    /\ global_steps = [s \in StageIds |-> 0]
    /\ data_iterator = 0
    /\ p2p = [s \in StageIds |-> NoCounts]
    /\ last_grad = [s \in StageIds |-> [n |-> 0, sent |-> <<>>, bufs |-> <<>>]]
    /\ samples_log = [s \in StageIds |-> <<>>]
    /\ EngineUnused
    /\ ConstructUnused

Running(s) == train_pc[s] = "running"
HeadIs(s, op) == Running(s) /\ cmds[s] # <<>> /\ Head(cmds[s]).op = op
Pop(c, s) == [c EXCEPT ![s] = Tail(@)]
Raised(s) == [train_pc EXCEPT ![s] = "raised"]

\* train() is called: iter(self.train_schedule) starts steps() afresh.
TrainStart(s) ==
    /\ train_pc[s] = "idle"
    /\ global_steps[s] < MaxBatches
    /\ train_pc' = [train_pc EXCEPT ![s] = "running"]
    /\ sched_step' = [sched_step EXCEPT ![s] = 0]
    /\ sched_prev' = [sched_prev EXCEPT ![s] = -1]
    /\ cmds' = [cmds EXCEPT ![s] = <<>>]
    /\ UNCHANGED <<pipe_buffers, sent_activation_meta, activation_recv_buf,
                   grad_recv_buf, loss, global_steps, data_iterator,
                   output_layout, p2p, last_grad>>
    /\ UNCHANGED <<samples_log, schedVars, engVars, initVars>>

\* for step_cmds in self.train_schedule: the generator yields the next group.
TrainNextStep(s) ==
    /\ Running(s)
    /\ cmds[s] = <<>>
    /\ sched_step[s] < total_steps(micro_batches, stages)
    /\ cmds' = [cmds EXCEPT ![s] =
            StepCmds(micro_batches, stages, s, sched_step[s], sched_prev[s])]
    /\ sched_prev' = [sched_prev EXCEPT ![s] =
            _step_to_micro_batch(stages, s, sched_step[s])[1]]
    /\ sched_step' = [sched_step EXCEPT ![s] = @ + 1]
    /\ UNCHANGED <<train_pc, pipe_buffers, sent_activation_meta,
                   activation_recv_buf, grad_recv_buf, loss, global_steps,
                   data_iterator, output_layout, p2p, last_grad>>
    /\ UNCHANGED <<samples_log, schedVars, engVars, initVars>>

\* TrainEnd that writes the logs without counting the batch.
TrainEnd_nocount(s) ==
    /\ Running(s)
    /\ cmds[s] = <<>>
    /\ ~(sched_step[s] < total_steps(micro_batches, stages))
    /\ UNCHANGED global_steps
    /\ train_pc' = [train_pc EXCEPT ![s] = "idle"]
    /\ UNCHANGED <<sched_step, sched_prev, cmds, pipe_buffers,
                   sent_activation_meta, activation_recv_buf, grad_recv_buf,
                   loss, data_iterator, output_layout, p2p, last_grad>>
    /\ samples_log' = [samples_log EXCEPT ![s] = Append(@, global_steps'[s])]
    /\ UNCHANGED <<schedVars, engVars, initVars>>

\* The schedule is exhausted: global_steps += 1, write_samples_logs().
TrainEnd(s) ==
    /\ Running(s)
    /\ cmds[s] = <<>>
    /\ ~(sched_step[s] < total_steps(micro_batches, stages))
    /\ global_steps' = [global_steps EXCEPT ![s] = @ + 1]
    /\ train_pc' = [train_pc EXCEPT ![s] = "idle"]
    /\ UNCHANGED <<sched_step, sched_prev, cmds, pipe_buffers,
                   sent_activation_meta, activation_recv_buf, grad_recv_buf,
                   loss, data_iterator, output_layout, p2p, last_grad>>
    /\ samples_log' = [samples_log EXCEPT ![s] = Append(@, global_steps'[s])]
    /\ UNCHANGED <<schedVars, engVars, initVars>>

\* ExecLoadMicroBatch that loads a batch on the last stage as well.
ExecLoadMicroBatch_both(s) ==
    /\ HeadIs(s, LoadMicroBatch)
    /\ LET cmd == Head(cmds[s]) IN
       IF ~(is_first_stage(s) \/ is_last_stage(s))
       THEN /\ train_pc' = Raised(s)
            /\ UNCHANGED <<cmds, pipe_buffers, data_iterator>>
       ELSE /\ cmds' = Pop(cmds, s)
            /\ UNCHANGED train_pc
            /\ IF is_first_stage(s) \/ is_last_stage(s)
               THEN /\ data_iterator' = data_iterator + 1
                    /\ pipe_buffers' =
                        [pipe_buffers EXCEPT ![s].inputs[cmd.buffer_id] =
                            Slot(PreparedBatch, cmd.mb, global_steps[s])]
               ELSE UNCHANGED <<data_iterator, pipe_buffers>>
    /\ UNCHANGED <<sched_step, sched_prev, sent_activation_meta,
                   activation_recv_buf, grad_recv_buf, loss, global_steps,
                   output_layout, p2p, last_grad>>
    /\ UNCHANGED <<samples_log, schedVars, engVars, initVars>>

\* load_microbatch(buffer_id)
ExecLoadMicroBatch(s) ==
    /\ HeadIs(s, LoadMicroBatch)
    /\ LET cmd == Head(cmds[s]) IN
       IF ~(is_first_stage(s) \/ is_last_stage(s))
       THEN /\ train_pc' = Raised(s)
            /\ UNCHANGED <<cmds, pipe_buffers, data_iterator>>
       ELSE /\ cmds' = Pop(cmds, s)
            /\ UNCHANGED train_pc
            /\ IF is_first_stage(s)
               THEN /\ data_iterator' = data_iterator + 1
                    /\ pipe_buffers' =
                        [pipe_buffers EXCEPT ![s].inputs[cmd.buffer_id] =
                            Slot(PreparedBatch, cmd.mb, global_steps[s])]
               ELSE UNCHANGED <<data_iterator, pipe_buffers>>
    /\ UNCHANGED <<sched_step, sched_prev, sent_activation_meta,
                   activation_recv_buf, grad_recv_buf, loss, global_steps,
                   output_layout, p2p, last_grad>>
    /\ UNCHANGED <<samples_log, schedVars, engVars, initVars>>

\* ExecForwardPass that sets the loss only while there is none.
ExecForwardPass_firstloss(s) ==
    /\ HeadIs(s, ForwardPass)
    /\ LET cmd == Head(cmds[s])
           inputs == pipe_buffers[s].inputs[cmd.buffer_id]
       IN
       IF ~inputs.set
       THEN /\ train_pc' = Raised(s)
            /\ UNCHANGED <<cmds, pipe_buffers, loss>>
       ELSE /\ cmds' = Pop(cmds, s)
            /\ UNCHANGED train_pc
            /\ IF is_last_stage(s)
               THEN /\ loss' = IF loss[s].set THEN loss
                            ELSE [loss EXCEPT ![s] =
                                    Slot(<<>>, inputs.mb, inputs.batch)]
                    /\ UNCHANGED pipe_buffers
               ELSE /\ pipe_buffers' =
                        [pipe_buffers EXCEPT ![s].outputs[cmd.buffer_id] =
                            Slot([i \in 1..Len(output_layout) |->
                                    Tensor(output_layout[i].shape,
                                           output_layout[i].dtype,
                                           output_layout[i].requires_grad, FALSE)],
                                 inputs.mb, inputs.batch)]
                    /\ UNCHANGED loss
    /\ UNCHANGED <<sched_step, sched_prev, sent_activation_meta,
                   activation_recv_buf, grad_recv_buf, global_steps,
                   data_iterator, output_layout, p2p, last_grad>>
    /\ UNCHANGED <<samples_log, schedVars, engVars, initVars>>

\* forward_pass(buffer_id)
ExecForwardPass(s) ==
    /\ HeadIs(s, ForwardPass)
    /\ LET cmd == Head(cmds[s])
           inputs == pipe_buffers[s].inputs[cmd.buffer_id]
       IN
       IF ~inputs.set
       THEN /\ train_pc' = Raised(s)
            /\ UNCHANGED <<cmds, pipe_buffers, loss>>
       ELSE /\ cmds' = Pop(cmds, s)
            /\ UNCHANGED train_pc
            /\ IF is_last_stage(s)
               THEN /\ loss' = [loss EXCEPT ![s] = Slot(<<>>, inputs.mb, inputs.batch)]
                    /\ UNCHANGED pipe_buffers
               ELSE /\ pipe_buffers' =
                        [pipe_buffers EXCEPT ![s].outputs[cmd.buffer_id] =
                            Slot([i \in 1..Len(output_layout) |->
                                    Tensor(output_layout[i].shape,
                                           output_layout[i].dtype,
                                           output_layout[i].requires_grad, FALSE)],
                                 inputs.mb, inputs.batch)]
                    /\ UNCHANGED loss
    /\ UNCHANGED <<sched_step, sched_prev, sent_activation_meta,
                   activation_recv_buf, grad_recv_buf, global_steps,
                   data_iterator, output_layout, p2p, last_grad>>
    /\ UNCHANGED <<samples_log, schedVars, engVars, initVars>>

\* ExecBackwardPass that leaves the outputs slot as it is.
ExecBackwardPass_keep(s) ==
    /\ HeadIs(s, BackwardPass)
    /\ LET cmd == Head(cmds[s])
           b == cmd.buffer_id
           inputs == pipe_buffers[s].inputs[b]
           outputs == pipe_buffers[s].outputs[b]
           \* the graph that is differentiated: the loss, or outputs[b]
           root == IF is_last_stage(s) THEN loss[s] ELSE outputs
           fails ==
               IF is_last_stage(s) THEN ~loss[s].set
               ELSE \/ ~outputs.set
                    \/ ~grad_recv_buf[s].alloc
                    \/ Len(create_gradients_buffer(outputs.tensors, 1))
                         # Len(grad_recv_buf[s].bufs)
       IN
       IF fails
       THEN /\ train_pc' = Raised(s)
            /\ UNCHANGED <<cmds, pipe_buffers>>
       ELSE /\ cmds' = Pop(cmds, s)
            /\ UNCHANGED train_pc
            /\ pipe_buffers' =
                [pipe_buffers EXCEPT
                    ![s].inputs[b] =
                        IF inputs.set /\ inputs.mb = root.mb /\ inputs.batch = root.batch
                        THEN WithGrads(inputs) ELSE inputs]
    /\ UNCHANGED <<sched_step, sched_prev, sent_activation_meta,
                   activation_recv_buf, grad_recv_buf, loss, global_steps,
                   data_iterator, output_layout, p2p, last_grad>>
    /\ UNCHANGED <<samples_log, schedVars, engVars, initVars>>

\* backward_pass(buffer_id)
ExecBackwardPass(s) ==
    /\ HeadIs(s, BackwardPass)
    /\ LET cmd == Head(cmds[s])
           b == cmd.buffer_id
           inputs == pipe_buffers[s].inputs[b]
           outputs == pipe_buffers[s].outputs[b]
           \* the graph that is differentiated: the loss, or outputs[b]
           root == IF is_last_stage(s) THEN loss[s] ELSE outputs
           fails ==
               IF is_last_stage(s) THEN ~loss[s].set
               ELSE \/ ~outputs.set
                    \/ ~grad_recv_buf[s].alloc
                    \/ Len(create_gradients_buffer(outputs.tensors, 1))
                         # Len(grad_recv_buf[s].bufs)
       IN
       IF fails
       THEN /\ train_pc' = Raised(s)
            /\ UNCHANGED <<cmds, pipe_buffers>>
       ELSE /\ cmds' = Pop(cmds, s)
            /\ UNCHANGED train_pc
            /\ pipe_buffers' =
                [pipe_buffers EXCEPT
                    ![s].inputs[b] =
                        IF inputs.set /\ inputs.mb = root.mb /\ inputs.batch = root.batch
                        THEN WithGrads(inputs) ELSE inputs,
                    ![s].outputs[b] = NoneSlot]
    /\ UNCHANGED <<sched_step, sched_prev, sent_activation_meta,
                   activation_recv_buf, grad_recv_buf, loss, global_steps,
                   data_iterator, output_layout, p2p, last_grad>>
    /\ UNCHANGED <<samples_log, schedVars, engVars, initVars>>

\* send_activations(buffer_id) on stage s meets recv_activations(buffer_id)
\* on stage s + 1: every dist.send is matched by the dist.recv of the peer.
XferActivation(s) ==
    /\ s + 1 \in StageIds
    /\ HeadIs(s, SendActivation)
    /\ HeadIs(s + 1, RecvActivation)
    /\ LET r == s + 1
           outputs == pipe_buffers[s].outputs[Head(cmds[s]).buffer_id]
           wire == send_activations(outputs.tensors, sent_activation_meta[s])
           first_recv == ~activation_recv_buf[r].alloc
           bufs == IF first_recv THEN create_receive_buffer(wire)
                   ELSE activation_recv_buf[r].bufs
           rest == IF first_recv THEN SubSeq(wire, MetaLen(wire) + 1, Len(wire))
                   ELSE wire
       IN
       IF ~outputs.set
       THEN /\ train_pc' = Raised(s)
            /\ UNCHANGED <<cmds, pipe_buffers, sent_activation_meta,
                           activation_recv_buf, p2p>>
       ELSE IF (first_recv => MetaReceivable(wire)) /\ PayloadReceivable(bufs, rest)
       THEN /\ sent_activation_meta' = [sent_activation_meta EXCEPT ![s] = TRUE]
            /\ activation_recv_buf' = [activation_recv_buf EXCEPT ![r] =
                    [alloc |-> TRUE, bufs |-> bufs, mb |-> outputs.mb,
                     batch |-> outputs.batch]]
            /\ pipe_buffers' =
                [pipe_buffers EXCEPT ![r].inputs[Head(cmds[r]).buffer_id] =
                    Slot(recv_activations(bufs), outputs.mb, outputs.batch)]
            /\ cmds' = [cmds EXCEPT ![s] = Tail(@), ![r] = Tail(@)]
            /\ p2p' = [p2p EXCEPT
                    ![s].sends = @ + 1,
                    ![s].meta_sent = @ + EnvelopesIn(wire),
                    ![s].payload_sent = @ + PayloadsIn(wire),
                    ![r].recvs = @ + 1,
                    ![r].meta_recvd = @ + (IF first_recv THEN 1 ELSE 0),
                    ![r].recv_allocs = @ + (IF first_recv THEN 1 ELSE 0),
                    ![r].payload_recvd = @ + Len(bufs)]
            /\ UNCHANGED train_pc
       ELSE \* the messages sent are not the messages the receiver waits for
            /\ train_pc' = [train_pc EXCEPT ![s] = "hung", ![r] = "hung"]
            /\ p2p' = [p2p EXCEPT
                    ![s].sends = @ + 1,
                    ![s].meta_sent = @ + EnvelopesIn(wire),
                    ![s].payload_sent = @ + PayloadsIn(wire)]
            /\ UNCHANGED <<cmds, pipe_buffers, sent_activation_meta,
                           activation_recv_buf>>
    /\ UNCHANGED <<sched_step, sched_prev, grad_recv_buf, loss, global_steps,
                   data_iterator, output_layout, last_grad>>
    /\ UNCHANGED <<samples_log, schedVars, engVars, initVars>>

\* send_gradients(buffer_id) on stage s + 1 meets recv_gradients(buffer_id)
\* on stage s.
XferGradient(s) ==
    /\ s + 1 \in StageIds
    /\ HeadIs(s, RecvGrad)
    /\ HeadIs(s + 1, SendGrad)
    /\ LET r == s + 1
           outputs == pipe_buffers[s].outputs[Head(cmds[s]).buffer_id]
           inputs == pipe_buffers[r].inputs[Head(cmds[r]).buffer_id]
           first_recv == ~grad_recv_buf[s].alloc
           bufs == IF first_recv THEN create_gradients_buffer(outputs.tensors, 1)
                   ELSE grad_recv_buf[s].bufs
           wire == send_gradients(inputs.tensors, 1)
           recv_fails == ~outputs.set
           send_fails == ~inputs.set \/ ~GradsAsExpected(inputs.tensors)
       IN
       IF recv_fails \/ send_fails
       THEN /\ train_pc' = [t \in StageIds |->
                    IF (t = s /\ recv_fails) \/ (t = r /\ send_fails)
                    THEN "raised" ELSE train_pc[t]]
            /\ UNCHANGED <<cmds, pipe_buffers, grad_recv_buf, p2p, last_grad>>
       ELSE /\ p2p' = [p2p EXCEPT
                    ![r].grad_sent = @ + Len(wire),
                    ![s].grad_recvd = @ + Len(bufs),
                    ![s].grad_allocs = @ + (IF first_recv THEN 1 ELSE 0)]
            /\ last_grad' = [last_grad EXCEPT ![s] =
                    [n |-> @.n + 1, sent |-> wire, bufs |-> bufs]]
            /\ grad_recv_buf' = [grad_recv_buf EXCEPT ![s] =
                    [alloc |-> TRUE, bufs |-> bufs, mb |-> inputs.mb,
                     batch |-> inputs.batch]]
            /\ IF PayloadReceivable(bufs, wire)
               THEN /\ pipe_buffers' =
                        [pipe_buffers EXCEPT
                            ![r].inputs[Head(cmds[r]).buffer_id] = NoneSlot]
                    /\ cmds' = [cmds EXCEPT ![s] = Tail(@), ![r] = Tail(@)]
                    /\ UNCHANGED train_pc
               ELSE \* the gradients sent are not those the receiver waits for
                    /\ train_pc' = [train_pc EXCEPT ![s] = "hung", ![r] = "hung"]
                    /\ UNCHANGED <<cmds, pipe_buffers>>
    /\ UNCHANGED <<sched_step, sched_prev, sent_activation_meta,
                   activation_recv_buf, loss, global_steps, data_iterator,
                   output_layout>>
    /\ UNCHANGED <<samples_log, schedVars, engVars, initVars>>

NextPipeline ==
    \E s \in StageIds :
        \/ TrainStart(s)
        \/ TrainNextStep(s)
        \/ TrainEnd(s)
        \/ ExecLoadMicroBatch(s)
        \/ ExecForwardPass(s)
        \/ ExecBackwardPass(s)
        \/ XferActivation(s)
        \/ XferGradient(s)

SpecPipeline == InitPipeline /\ [][NextPipeline]_vars

PipelineDone ==
    \A s \in StageIds : train_pc[s] = "idle" /\ global_steps[s] = MaxBatches

\* ------------------------------------------------ SpecEngine: ExecutionEngine
WatcherIds == 1..(MaxFailures + 1)
IteratorIds == 1..MaxIterators
NodeCounts == 0..MaxNodes

\* Thread.is_alive() of a watcher thread at position pc of
\* notification_receive_func.
is_alive(pc) == pc \in {"waiting", "notified", "flagged", "shut"}

\* Messages of the exceptions execute_pipeline raises, as the prefix that
\* str(e).startswith() looks at followed by the rest of the text.
ErrorMessages ==
    { <<"Default process group", " has not been initialized">>,
      <<"Connection closed", " by peer">>,
      <<"NCCL error: ", "Connection closed">>,
      <<"CUDA out of memory">> }
NoBoosterMessage == <<"'NoneType' object has no attribute 'execute_pipeline'">>

\* No exception has been caught by the current call.
NoError == <<>>

startswith(msg, prefix) == Len(msg) >= 1 /\ msg[1] = prefix

\* IsReraised that looks for the two texts anywhere in the message.
IsReraised_anywhere(msg) ==
    ~(\E k \in 1..Len(msg) :
        msg[k] \in {"Default process group", "Connection closed"})

\* The test of the except clause of execute: the error is re-raised.
IsReraised(msg) ==
    ~(startswith(msg, "Default process group")
      \/ startswith(msg, "Connection closed"))

InitEngine ==
    /\ micro_batches = 1 /\ stages = 1 /\ stage_id = 0 /\ step_id = 0
    /\ prev_micro_batch_id = -1 /\ yielded = <<>> /\ exhausted = FALSE
    /\ PipelineUnused
    /\ ConstructUnused
    /\ eng_pc = "idle"
    /\ pipeline_templates = [set |-> FALSE, keys |-> {}]
    /\ booster = FALSE
    /\ dist_initialized = FALSE
    /\ notification_receiver_thread = 0
    /\ need_reconfiguration = FALSE
    /\ watcher_pc = [i \in WatcherIds |-> "unstarted"]
    /\ comm_up = FALSE
    /\ pending = 0
    /\ failures = 0
    /\ invalidated = [it \in IteratorIds |-> FALSE]
    /\ cur_iter = 1
    /\ instr_done = 0
    /\ call = [name |-> "none", flag_at_call |-> FALSE, flag_at_return |-> FALSE,
               result |-> "none", spawned |-> FALSE, blocked |-> FALSE,
                error |-> NoError]
    /\ handed = {}
    /\ returned = <<>>
    /\ watcher_log = [i \in WatcherIds |-> <<>>]

\* The caller's history after one more call has completed with result.
Remember(result) ==
    IF Len(returned) < MaxHistory
    THEN Append(returned, result)
    ELSE Append(Tail(returned), result)

\* The call returns (or raises) result; flag is need_reconfiguration then.
Return(result, flag) ==
    /\ eng_pc' = "idle"
    /\ call' = [call EXCEPT !.result = result, !.flag_at_return = flag]
    /\ returned' = Remember(result)

\* The except clause of execute has caught the exception with message msg
\* and leaves with result: a bare raise, or return None.
Caught(msg, result) ==
    /\ eng_pc' = "idle"
    /\ call' = [call EXCEPT !.result = result, !.error = msg,
                            !.flag_at_return = need_reconfiguration]
    /\ returned' = Remember(result)

\* prepare() returns or raises result; generated are the node counts
\* create_pipeline_templates was asked for and passing those whose template
\* passes the sanity check.
PrepareReturn(result, generated, passing) ==
    /\ eng_pc' = "idle"
    /\ call' = [name |-> "prepare", flag_at_call |-> need_reconfiguration,
                flag_at_return |-> need_reconfiguration, result |-> result,
                spawned |-> FALSE, blocked |-> FALSE,
                error |-> NoError,
                generated |-> generated, passing |-> passing]
    /\ returned' = Remember(result)

\* Prepare without the two tests at its top.
Prepare_again(min_num_nodes, max_num_nodes, passing) ==
    /\ eng_pc = "idle"
    /\ LET generated == {n \in NodeCounts : min_num_nodes <= n /\ n <= max_num_nodes}
           survivors == generated \cap passing
       IN
       /\ dist_initialized' = TRUE
       /\ comm_up' = TRUE
       /\ IF survivors = {}
          THEN /\ PrepareReturn("RuntimeError: no pipeline templates", generated, passing)
               /\ UNCHANGED <<pipeline_templates, booster, handed>>
          ELSE /\ pipeline_templates' = [set |-> TRUE, keys |-> survivors]
               /\ handed' = survivors
               /\ booster' = TRUE
               /\ PrepareReturn("prepared", generated, passing)
    /\ UNCHANGED <<notification_receiver_thread, need_reconfiguration,
                   watcher_pc, pending, failures, invalidated, cur_iter,
                   instr_done, watcher_log>>
    /\ UNCHANGED <<schedVars, pipeVars, initVars>>

\* Prepare that keeps every generated template, whatever the sanity check
\* says.
Prepare_unchecked(min_num_nodes, max_num_nodes, passing) ==
    /\ eng_pc = "idle"
    /\ LET generated == {n \in NodeCounts : min_num_nodes <= n /\ n <= max_num_nodes}
           survivors == generated
       IN
       IF dist_initialized
       THEN /\ PrepareReturn("AssertionError", generated, passing)
            /\ UNCHANGED <<pipeline_templates, booster, dist_initialized,
                           comm_up, handed>>
       ELSE IF pipeline_templates.set
       THEN /\ PrepareReturn("RuntimeError: already initialized", generated, passing)
            /\ UNCHANGED <<pipeline_templates, booster, dist_initialized,
                           comm_up, handed>>
       ELSE /\ dist_initialized' = TRUE
            /\ comm_up' = TRUE
            /\ IF survivors = {}
               THEN /\ PrepareReturn("RuntimeError: no pipeline templates", generated, passing)
                    /\ UNCHANGED <<pipeline_templates, booster, handed>>
               ELSE /\ pipeline_templates' = [set |-> TRUE, keys |-> survivors]
                    /\ handed' = survivors
                    /\ booster' = TRUE
                    /\ PrepareReturn("prepared", generated, passing)
    /\ UNCHANGED <<notification_receiver_thread, need_reconfiguration,
                   watcher_pc, pending, failures, invalidated, cur_iter,
                   instr_done>>
    /\ UNCHANGED <<watcher_log>>
    /\ UNCHANGED <<schedVars, pipeVars, initVars>>

\* prepare(): min_num_nodes and max_num_nodes as computed from the profile
\* and the world size, passing the node counts whose template passes
\* pipeline_template_sanity_check.
Prepare(min_num_nodes, max_num_nodes, passing) ==
    /\ eng_pc = "idle"
    /\ LET generated == {n \in NodeCounts : min_num_nodes <= n /\ n <= max_num_nodes}
           survivors == generated \cap passing
       IN
       IF dist_initialized
       THEN /\ PrepareReturn("AssertionError", generated, passing)
            /\ UNCHANGED <<pipeline_templates, booster, dist_initialized,
                           comm_up, handed>>
       ELSE IF pipeline_templates.set
       THEN /\ PrepareReturn("RuntimeError: already initialized", generated, passing)
            /\ UNCHANGED <<pipeline_templates, booster, dist_initialized,
                           comm_up, handed>>
       ELSE /\ dist_initialized' = TRUE
            /\ comm_up' = TRUE
            /\ IF survivors = {}
               THEN /\ PrepareReturn("RuntimeError: no pipeline templates", generated, passing)
                    /\ UNCHANGED <<pipeline_templates, booster, handed>>
               ELSE /\ pipeline_templates' = [set |-> TRUE, keys |-> survivors]
                    /\ handed' = survivors
                    /\ booster' = TRUE
                    /\ PrepareReturn("prepared", generated, passing)
    /\ UNCHANGED <<notification_receiver_thread, need_reconfiguration,
                   watcher_pc, pending, failures, invalidated, cur_iter,
                   instr_done>>
    /\ UNCHANGED <<watcher_log>>
    /\ UNCHANGED <<schedVars, pipeVars, initVars>>

\* execute(dataloader_iterator, ...) is called.
CallExecute(it) ==
    /\ eng_pc = "idle"
    /\ eng_pc' = "exec_flag"
    /\ cur_iter' = it
    /\ instr_done' = 0
    /\ call' = [name |-> "execute", flag_at_call |-> need_reconfiguration,
                flag_at_return |-> FALSE, result |-> "running",
                spawned |-> FALSE, blocked |-> FALSE,
                error |-> NoError]
    /\ UNCHANGED <<pipeline_templates, booster, dist_initialized,
                   notification_receiver_thread, need_reconfiguration,
                   watcher_pc, comm_up, pending, failures, invalidated, handed>>
    /\ UNCHANGED <<returned, watcher_log>>
    /\ UNCHANGED <<schedVars, pipeVars, initVars>>

\* if self.need_reconfiguration:
ExecCheckFlag ==
    /\ eng_pc = "exec_flag"
    /\ eng_pc' = IF need_reconfiguration THEN "exec_wait" ELSE "exec_iter"
    /\ UNCHANGED <<pipeline_templates, booster, dist_initialized,
                   notification_receiver_thread, need_reconfiguration,
                   watcher_pc, comm_up, pending, failures, invalidated,
                   cur_iter, instr_done, call, handed>>
    /\ UNCHANGED <<returned, watcher_log>>
    /\ UNCHANGED <<schedVars, pipeVars, initVars>>

\* ExecWaitLoop that returns without looking at the watcher thread.
ExecWaitLoop_nowait ==
    /\ eng_pc = "exec_wait"
    /\ UNCHANGED <<pipeline_templates, booster, dist_initialized,
                   notification_receiver_thread, need_reconfiguration,
                   watcher_pc, comm_up, pending, failures, invalidated,
                   cur_iter, instr_done, handed>>
    /\ Return("None (need_reconfiguration)", need_reconfiguration)
    /\ UNCHANGED <<watcher_log>>
    /\ UNCHANGED <<schedVars, pipeVars, initVars>>

\* while self.notification_receiver_thread.is_alive(): sleep(1); return None
ExecWaitLoop ==
    /\ eng_pc = "exec_wait"
    /\ UNCHANGED <<pipeline_templates, booster, dist_initialized,
                   notification_receiver_thread, need_reconfiguration,
                   watcher_pc, comm_up, pending, failures, invalidated,
                   cur_iter, instr_done, handed>>
    /\ IF notification_receiver_thread = 0
       THEN Return("AttributeError", need_reconfiguration)
       ELSE IF is_alive(watcher_pc[notification_receiver_thread])
       THEN /\ call' = [call EXCEPT !.blocked = TRUE]
            /\ UNCHANGED <<eng_pc, returned>>
       ELSE Return("None (need_reconfiguration)", need_reconfiguration)
    /\ UNCHANGED <<watcher_log>>
    /\ UNCHANGED <<schedVars, pipeVars, initVars>>

\* ExecCheckIterator that does not look at the invalidated mark.
ExecCheckIterator_skip ==
    /\ eng_pc = "exec_iter"
    /\ eng_pc' = "exec_spawn"
    /\ UNCHANGED <<pipeline_templates, booster, dist_initialized,
                   notification_receiver_thread, need_reconfiguration,
                   watcher_pc, comm_up, pending, failures, invalidated,
                   cur_iter, instr_done, handed, call, returned, watcher_log>>
    /\ UNCHANGED <<schedVars, pipeVars, initVars>>

\* if getattr(dataloader_iterator, "invalidated", False): raise RuntimeError
ExecCheckIterator ==
    /\ eng_pc = "exec_iter"
    /\ UNCHANGED <<pipeline_templates, booster, dist_initialized,
                   notification_receiver_thread, need_reconfiguration,
                   watcher_pc, comm_up, pending, failures, invalidated,
                   cur_iter, instr_done, handed>>
    /\ IF invalidated[cur_iter]
       THEN Return("RuntimeError: iterator invalidated", need_reconfiguration)
       ELSE /\ eng_pc' = "exec_spawn"
            /\ UNCHANGED <<call, returned>>
    /\ UNCHANGED <<watcher_log>>
    /\ UNCHANGED <<schedVars, pipeVars, initVars>>

\* ExecSpawnWatcher that starts a watcher thread on every execute.
ExecSpawnWatcher_always ==
    /\ eng_pc = "exec_spawn"
    /\ eng_pc' = "exec_run"
    /\ notification_receiver_thread' = notification_receiver_thread + 1
    /\ watcher_pc' = [watcher_pc EXCEPT
            ![notification_receiver_thread + 1] = "waiting"]
    /\ call' = [call EXCEPT !.spawned = TRUE]
    /\ UNCHANGED <<pipeline_templates, booster, dist_initialized,
                   need_reconfiguration, comm_up, pending, failures,
                   invalidated, cur_iter, instr_done, handed, returned,
                   watcher_log>>
    /\ UNCHANGED <<schedVars, pipeVars, initVars>>

\* Start a watcher thread unless one exists and is alive.
ExecSpawnWatcher ==
    /\ eng_pc = "exec_spawn"
    /\ eng_pc' = "exec_run"
    /\ IF \/ notification_receiver_thread = 0
          \/ ~is_alive(watcher_pc[notification_receiver_thread])
       THEN /\ notification_receiver_thread' = notification_receiver_thread + 1
            /\ watcher_pc' = [watcher_pc EXCEPT
                    ![notification_receiver_thread + 1] = "waiting"]
            /\ call' = [call EXCEPT !.spawned = TRUE]
       ELSE UNCHANGED <<notification_receiver_thread, watcher_pc, call>>
    /\ UNCHANGED <<pipeline_templates, booster, dist_initialized,
                   need_reconfiguration, comm_up, pending, failures,
                   invalidated, cur_iter, instr_done, handed>>
    /\ UNCHANGED <<returned, watcher_log>>
    /\ UNCHANGED <<schedVars, pipeVars, initVars>>

\* ExecPipelineStep that stops issuing instructions once the flag is set.
ExecPipelineStep_cancellable ==
    /\ eng_pc = "exec_run"
    /\ booster
    /\ ~need_reconfiguration
    /\ instr_done < BatchLen
    /\ instr_done' = instr_done + 1
    /\ UNCHANGED <<eng_pc, pipeline_templates, booster, dist_initialized,
                   notification_receiver_thread, need_reconfiguration,
                   watcher_pc, comm_up, pending, failures, invalidated,
                   cur_iter, call, handed, returned, watcher_log>>
    /\ UNCHANGED <<schedVars, pipeVars, initVars>>

\* booster.execute_pipeline runs one more pipeline instruction.
ExecPipelineStep ==
    /\ eng_pc = "exec_run"
    /\ booster
    /\ instr_done < BatchLen
    /\ instr_done' = instr_done + 1
    /\ UNCHANGED <<eng_pc, pipeline_templates, booster, dist_initialized,
                   notification_receiver_thread, need_reconfiguration,
                   watcher_pc, comm_up, pending, failures, invalidated,
                   cur_iter, call, handed>>
    /\ UNCHANGED <<returned, watcher_log>>
    /\ UNCHANGED <<schedVars, pipeVars, initVars>>

\* booster.execute_pipeline returns: execute returns its result.
ExecPipelineReturn ==
    /\ eng_pc = "exec_run"
    /\ booster
    /\ instr_done = BatchLen
    /\ UNCHANGED <<pipeline_templates, booster, dist_initialized,
                   notification_receiver_thread, need_reconfiguration,
                   watcher_pc, comm_up, pending, failures, invalidated,
                   cur_iter, instr_done, handed>>
    /\ Return("result", need_reconfiguration)
    /\ UNCHANGED <<watcher_log>>
    /\ UNCHANGED <<schedVars, pipeVars, initVars>>

\* An exception with message msg leaves the try block: except Exception as e.
ExecPipelineRaise(msg) ==
    /\ eng_pc = "exec_run"
    /\ booster \/ msg = NoBoosterMessage
    /\ ~booster \/ msg \in ErrorMessages
    /\ UNCHANGED <<pipeline_templates, booster, dist_initialized,
                   notification_receiver_thread, need_reconfiguration,
                   watcher_pc, comm_up, pending, failures, cur_iter,
                   instr_done, handed>>
    /\ IF IsReraised(msg)
       THEN /\ UNCHANGED invalidated
            /\ Caught(msg, "raise")
       ELSE /\ invalidated' = [invalidated EXCEPT ![cur_iter] = TRUE]
            /\ Caught(msg, "None (teardown error)")
    /\ UNCHANGED <<watcher_log>>
    /\ UNCHANGED <<schedVars, pipeVars, initVars>>

\* CallReconfigure in which the principal tears the communicator down.
CallReconfigure_teardown ==
    /\ eng_pc = "idle"
    /\ eng_pc' = "reconf"
    /\ comm_up' = FALSE
    /\ call' = [name |-> "reconfigure", flag_at_call |-> need_reconfiguration,
                flag_at_return |-> FALSE, result |-> "running",
                spawned |-> FALSE, blocked |-> FALSE,
                error |-> NoError]
    /\ UNCHANGED <<pipeline_templates, booster, dist_initialized,
                   notification_receiver_thread, need_reconfiguration,
                   watcher_pc, pending, failures, invalidated, cur_iter,
                   instr_done, handed, returned, watcher_log>>
    /\ UNCHANGED <<schedVars, pipeVars, initVars>>

\* reconfigure() is called: self.plugin.reconfigure(...) builds the new
\* layout against a new communicator.
CallReconfigure ==
    /\ eng_pc = "idle"
    /\ eng_pc' = "reconf"
    /\ comm_up' = plugin_reconfigure
    /\ call' = [name |-> "reconfigure", flag_at_call |-> need_reconfiguration,
                flag_at_return |-> FALSE, result |-> "running",
                spawned |-> FALSE, blocked |-> FALSE,
                error |-> NoError]
    /\ UNCHANGED <<pipeline_templates, booster, dist_initialized,
                   notification_receiver_thread, need_reconfiguration,
                   watcher_pc, pending, failures, invalidated, cur_iter,
                   instr_done, handed>>
    /\ UNCHANGED <<returned, watcher_log>>
    /\ UNCHANGED <<schedVars, pipeVars, initVars>>

\* ReconfigureReturn that leaves the flag as it is.
ReconfigureReturn_keep ==
    /\ eng_pc = "reconf"
    /\ UNCHANGED <<pipeline_templates, booster, dist_initialized,
                   notification_receiver_thread, need_reconfiguration,
                   watcher_pc, comm_up, pending, failures, invalidated,
                   cur_iter, instr_done, handed, watcher_log>>
    /\ Return("reconfigured", need_reconfiguration)
    /\ UNCHANGED <<schedVars, pipeVars, initVars>>

\* self.need_reconfiguration = False; return
ReconfigureReturn ==
    /\ eng_pc = "reconf"
    /\ need_reconfiguration' = FALSE
    /\ UNCHANGED <<pipeline_templates, booster, dist_initialized,
                   notification_receiver_thread, watcher_pc, comm_up, pending,
                   failures, invalidated, cur_iter, instr_done, handed>>
    /\ Return("reconfigured", FALSE)
    /\ UNCHANGED <<watcher_log>>
    /\ UNCHANGED <<schedVars, pipeVars, initVars>>

WatcherStep(i, from, to) ==
    /\ watcher_pc[i] = from
    /\ watcher_pc' = [watcher_pc EXCEPT ![i] = to]

\* Watcher thread i has done event.
Logged(i, event) ==
    watcher_log' = [watcher_log EXCEPT ![i] = Append(@, event)]

\* A worker observes the loss of a peer: a notification is on its way.
PeerFailure ==
    /\ failures < MaxFailures
    /\ failures' = failures + 1
    /\ pending' = pending + 1
    /\ UNCHANGED <<eng_pc, pipeline_templates, booster, dist_initialized,
                   notification_receiver_thread, need_reconfiguration,
                   watcher_pc, comm_up, invalidated, cur_iter, instr_done,
                   call, handed>>
    /\ UNCHANGED <<returned, watcher_log>>
    /\ UNCHANGED <<schedVars, pipeVars, initVars>>

\* recv_reconfiguration_notification() returns in the watcher thread.
WatcherNotified(i) ==
    /\ pending > 0
    /\ pending' = pending - 1
    /\ WatcherStep(i, "waiting", "notified")
    /\ UNCHANGED <<eng_pc, pipeline_templates, booster, dist_initialized,
                   notification_receiver_thread, need_reconfiguration,
                   comm_up, failures, invalidated, cur_iter, instr_done,
                   call, handed>>
    /\ UNCHANGED <<returned, watcher_log>>
    /\ UNCHANGED <<schedVars, pipeVars, initVars>>

\* self.need_reconfiguration = True
WatcherSetFlag(i) ==
    /\ WatcherStep(i, "notified", "flagged")
    /\ need_reconfiguration' = TRUE
    /\ Logged(i, "set flag")
    /\ UNCHANGED <<eng_pc, pipeline_templates, booster, dist_initialized,
                   notification_receiver_thread, comm_up, pending, failures,
                   invalidated, cur_iter, instr_done, call, handed>>
    /\ UNCHANGED <<returned>>
    /\ UNCHANGED <<schedVars, pipeVars, initVars>>

\* WatcherShutdown that runs before the flag is set.
WatcherShutdown_first(i) ==
    /\ WatcherStep(i, "notified", "shut")
    /\ comm_up' = FALSE
    /\ Logged(i, "shutdown")
    /\ UNCHANGED <<eng_pc, pipeline_templates, booster, dist_initialized,
                   notification_receiver_thread, need_reconfiguration, pending,
                   failures, invalidated, cur_iter, instr_done, call, handed,
                   returned>>
    /\ UNCHANGED <<schedVars, pipeVars, initVars>>

\* on_receive_reconfiguration_notifiation(): pg._shutdown()
WatcherShutdown(i) ==
    /\ WatcherStep(i, "flagged", "shut")
    /\ comm_up' = FALSE
    /\ Logged(i, "shutdown")
    /\ UNCHANGED <<eng_pc, pipeline_templates, booster, dist_initialized,
                   notification_receiver_thread, need_reconfiguration, pending,
                   failures, invalidated, cur_iter, instr_done, call, handed>>
    /\ UNCHANGED <<returned>>
    /\ UNCHANGED <<schedVars, pipeVars, initVars>>

\* notification_receive_func returns: the thread terminates.
WatcherExit(i) ==
    /\ WatcherStep(i, "shut", "dead")
    /\ Logged(i, "exit")
    /\ UNCHANGED <<eng_pc, pipeline_templates, booster, dist_initialized,
                   notification_receiver_thread, need_reconfiguration, comm_up,
                   pending, failures, invalidated, cur_iter, instr_done,
                   call, handed>>
    /\ UNCHANGED <<returned>>
    /\ UNCHANGED <<schedVars, pipeVars, initVars>>

NextEngine ==
    \/ \E lo \in 1..MaxNodes, hi \in NodeCounts :
         \E passing \in SUBSET (lo..hi) : Prepare(lo, hi, passing)
    \/ \E it \in IteratorIds : CallExecute(it)
    \/ ExecCheckFlag
    \/ ExecWaitLoop
    \/ ExecCheckIterator
    \/ ExecSpawnWatcher
    \/ ExecPipelineStep
    \/ ExecPipelineReturn
    \/ \E msg \in ErrorMessages \cup {NoBoosterMessage} : ExecPipelineRaise(msg)
    \/ CallReconfigure
    \/ ReconfigureReturn
    \/ PeerFailure
    \/ \E i \in WatcherIds :
        \/ WatcherNotified(i)
        \/ WatcherSetFlag(i)
        \/ WatcherShutdown(i)
        \/ WatcherExit(i)

SpecEngine == InitEngine /\ [][NextEngine]_vars

\* The engine with its threads scheduled fairly: a watcher thread that can
\* take its next step takes it (a notification on its way is delivered,
\* pg._shutdown() returns), and so does the principal at the top of execute.
\* The caller, the peers and the pipeline run are under no obligation.
FairEngine ==
    /\ \A i \in WatcherIds :
        /\ WF_vars(WatcherNotified(i))
        /\ WF_vars(WatcherSetFlag(i))
        /\ WF_vars(WatcherShutdown(i))
        /\ WF_vars(WatcherExit(i))
    /\ WF_vars(ExecCheckFlag)
    /\ WF_vars(ExecWaitLoop)

FairSpecEngine == SpecEngine /\ FairEngine

\* ------------------------------------- SpecConstruct: OobleckPipeline.__init__
\* An Optional[int] attribute: None, or an integer.
None == <<>>
Some(x) == <<x>>

\* ranks.index(x), counted from 0.
index(ranks, x) ==
    (CHOOSE i \in 1..Len(ranks) :
        ranks[i] = x /\ \A k \in 1..(i - 1) : ranks[k] # x) - 1

\* ranks[rank_index - num_gpus_per_node] if rank_index >= num_gpus_per_node
\* else None
PrevRank(ranks, rank_index, num_gpus_per_node) ==
    IF rank_index >= num_gpus_per_node
    THEN Some(ranks[(rank_index - num_gpus_per_node) + 1])
    ELSE None

\* ranks[rank_index + num_gpus_per_node]
\* if rank_index < len(ranks) - num_gpus_per_node else None
NextRank(ranks, rank_index, num_gpus_per_node) ==
    IF rank_index < Len(ranks) - num_gpus_per_node
    THEN Some(ranks[(rank_index + num_gpus_per_node) + 1])
    ELSE None

\* The loop "for stage_index, stage in enumerate(get_stages())": the index
\* of the first stage with my_rank in range(layer_indices[0],
\* layer_indices[1]), None when the loop ends without break.
FindStage(template_stages, my_rank) ==
    LET hits == {k \in 1..Len(template_stages) :
                    /\ template_stages[k][1] <= my_rank
                    /\ my_rank < template_stages[k][2]}
    IN IF hits = {} THEN None
       ELSE Some((CHOOSE k \in hits : \A j \in hits : k <= j) - 1)

\* The pipelines the world is divided into, each with its own ranks, and
\* the templates: S stages of g accelerators and n layers each.
InitConstruct ==
    /\ micro_batches \in 1..MaxMicroBatches
    /\ stages = 1 /\ stage_id = 0 /\ step_id = 0
    /\ prev_micro_batch_id = -1 /\ yielded = <<>> /\ exhausted = FALSE
    /\ PipelineUnused
    /\ EngineUnused
    /\ init_pc = "called"
    /\ \E S \in 1..MaxStages, g \in 1..MaxGpusPerNode,
          n \in 1..MaxLayersPerStage, replica \in 0..(MaxReplicas - 1) :
         /\ init_args =
                [ranks |-> [i \in 1..(S * g) |-> replica * S * g + i - 1],
                 num_gpus_per_node |-> g,
                 template_stages |-> [k \in 1..S |-> <<(k - 1) * n, k * n>>],
                 total_num_layers |-> S * n,
                 step |-> 0]
         /\ get_rank \in 0..(MaxReplicas * S * g - 1)
    /\ self_attrs = <<>>
    /\ init_error = ""

\* __init__ raises error with the attributes attrs bound so far.
InitRaises(error, attrs) ==
    /\ init_pc' = "raised"
    /\ init_error' = error
    /\ self_attrs' = attrs

\* OobleckPipeline.__init__, from its first statement to its return or to
\* the exception that leaves it.
PipelineInit ==
    /\ init_pc = "called"
    /\ LET ranks == init_args.ranks
           num_gpus_per_node == init_args.num_gpus_per_node
           template_stages == init_args.template_stages
       IN
       IF Len(ranks) # Len(template_stages) * num_gpus_per_node
       THEN InitRaises("AssertionError", self_attrs)
       ELSE
       \* self.ranks = ranks; "self.my_rank: dist.get_rank()" is an
       \* annotation and binds nothing
       LET a1 == self_attrs @@ ("ranks" :> ranks) IN
       IF "my_rank" \notin DOMAIN a1
       THEN InitRaises("AttributeError: my_rank", a1)
       ELSE IF a1["my_rank"] \notin {ranks[i] : i \in 1..Len(ranks)}
       THEN InitRaises("AssertionError", a1)
       ELSE
       LET rank_index == index(ranks, a1["my_rank"])
           a2 == a1 @@ ("prev_rank" :> PrevRank(ranks, rank_index, num_gpus_per_node))
                    @@ ("next_rank" :> NextRank(ranks, rank_index, num_gpus_per_node))
                    @@ ("total_num_layers" :> init_args.total_num_layers)
           found == FindStage(template_stages, a1["my_rank"])
           a3 == IF found = None THEN a2
                 ELSE a2 @@ ("model_layers" :> template_stages[found[1] + 1])
                         @@ ("my_stage_index" :> found[1])
       IN
       IF "model_layers" \notin DOMAIN a3
       THEN InitRaises("AttributeError: model_layers", a3)
       ELSE IF "execution" \notin DOMAIN a3
       THEN InitRaises("AttributeError: execution", a3)
       ELSE
       LET S == Len(template_stages)
           stage_index == found[1]
           n == num_pipe_buffers(micro_batches, S, stage_index)
       IN
       /\ init_pc' = "returned"
       /\ init_error' = ""
       /\ self_attrs' =
            a3 @@ ("train_schedule" :>
                        [micro_batches |-> micro_batches, stages |-> S,
                         stage_id |-> stage_index])
               @@ ("pipe_buffers" :>
                        [inputs |-> [b \in 0..(n - 1) |-> NoneSlot],
                         outputs |-> [b \in 0..(n - 1) |-> NoneSlot]])
               @@ ("global_steps" :> init_args.step)
    /\ UNCHANGED <<init_args, get_rank>>
    /\ UNCHANGED <<schedVars, pipeVars, engVars>>

NextConstruct == PipelineInit

SpecConstruct == InitConstruct /\ [][NextConstruct]_vars

\* ------------------------------------------------ schedule properties
\* The instruction stream yielded so far, step groups concatenated.
Stream == Flatten(yielded)

ScheduleDone == exhausted

PositionsOf(stream, op, mb) ==
    {i \in 1..Len(stream) : stream[i].op = op /\ stream[i].mb = mb}
CountOp(stream, op) ==
    Cardinality({i \in 1..Len(stream) : stream[i].op = op})

\* C1: once steps() is exhausted it has yielded exactly 2*(M+S-1) step groups,
\* containing exactly one ForwardPass and one BackwardPass per micro batch
\* 0..M-1 (M of each in total), the ForwardPass of i before the BackwardPass
\* of i; and the generator never yields more than 2*(M+S-1) groups.
C1_ForwardBackwardCounts ==
    /\ Len(yielded) <= 2 * (micro_batches + stages - 1)
    /\ ScheduleDone =>
        /\ Len(yielded) = 2 * (micro_batches + stages - 1)
        /\ CountOp(Stream, ForwardPass) = micro_batches
        /\ CountOp(Stream, BackwardPass) = micro_batches
        /\ \A i \in 0..(micro_batches - 1) :
            /\ Cardinality(PositionsOf(Stream, ForwardPass, i)) = 1
            /\ Cardinality(PositionsOf(Stream, BackwardPass, i)) = 1
            /\ \A f \in PositionsOf(Stream, ForwardPass, i) :
               \A b \in PositionsOf(Stream, BackwardPass, i) : f < b

C1_Witness ==
    /\ ScheduleDone
    /\ micro_batches = 3 /\ stages = 3 /\ stage_id = 1
    /\ CountOp(Stream, BackwardPass) = 3

\* Rank of an instruction in the per-micro-batch order of one stage.
OpRank(op) ==
    CASE op = RecvActivation -> 0
      [] op = LoadMicroBatch -> 1
      [] op = ForwardPass -> 2
      [] op = SendActivation -> 3
      [] op = RecvGrad -> 4
      [] op = BackwardPass -> 5
      [] op = SendGrad -> 6

\* C3: on every stage the instructions concerning one micro batch appear in
\* the order (RecvActivation | LoadMicroBatch) -> ForwardPass ->
\* SendActivation? -> RecvGrad? -> BackwardPass -> SendGrad?, each at most
\* once, and every ForwardPass is preceded by the RecvActivation or the
\* LoadMicroBatch of its micro batch.
C3_PerMicroBatchOrder ==
    /\ \A i, j \in 1..Len(Stream) :
        (i < j /\ Stream[i].mb = Stream[j].mb)
            => OpRank(Stream[i].op) < OpRank(Stream[j].op)
    /\ \A j \in 1..Len(Stream) :
        Stream[j].op = ForwardPass =>
            \E i \in 1..(j - 1) :
                /\ Stream[i].mb = Stream[j].mb
                /\ Stream[i].op \in {RecvActivation, LoadMicroBatch}

C3_Witness ==
    /\ ScheduleDone
    /\ micro_batches = 2 /\ stages = 3 /\ stage_id = 1
    /\ \E i \in 1..Len(Stream) : Stream[i].op = SendGrad /\ Stream[i].mb = 1

BufferIdsUsed == {Stream[i].buffer_id : i \in 1..Len(Stream)}

\* C4 as stated: the number of distinct buffer_ids of one batch's schedule
\* is exactly max(2, min(S-s, M)).
C4_Original ==
    ScheduleDone =>
        Cardinality(BufferIdsUsed)
            = Max(2, Min(stages - stage_id, micro_batches))

\* C4 amended: every buffer_id used is below max(2, min(S-s, M)); the
\* number of distinct buffer_ids is max(2, min(S-s, M)) when M >= 2 and 1
\* when M = 1.
C4_DistinctBufferIds ==
    /\ \A b \in BufferIdsUsed :
        0 <= b /\ b < Max(2, Min(stages - stage_id, micro_batches))
    /\ ScheduleDone =>
        Cardinality(BufferIdsUsed)
            = (IF micro_batches = 1 THEN 1
               ELSE Max(2, Min(stages - stage_id, micro_batches)))

C4_Witness ==
    /\ ScheduleDone
    /\ micro_batches = 3 /\ stages = 3 /\ stage_id = 0
    /\ Cardinality(BufferIdsUsed) = 3

\* C5: no instruction addresses a non-existent neighbour: RecvActivation and
\* SendGrad never at stage 0, SendActivation and RecvGrad never at stage
\* S-1; with S = 1 no P2P instruction at all.
C5_NoAbsentNeighbour ==
    \A i \in 1..Len(Stream) :
        /\ stage_id = 0 => Stream[i].op \notin {RecvActivation, SendGrad}
        /\ stage_id = stages - 1 => Stream[i].op \notin {SendActivation, RecvGrad}

C5_Witness ==
    /\ ScheduleDone
    /\ stages = 2 /\ stage_id = 1 /\ micro_batches = 2
    /\ CountOp(Stream, RecvActivation) = 2
    /\ CountOp(Stream, SendGrad) = 2

\* ------------------------------------------------ pipeline properties
\* The group steps() yields at step t on stage s (prev is the micro batch of
\* step t - 1), each instruction paired with t.
GroupAt(s, t) ==
    LET prev == IF t = 0 THEN -1 ELSE _step_to_micro_batch(stages, s, t - 1)[1]
        group == StepCmds(micro_batches, stages, s, t, prev)
    IN [i \in 1..Len(group) |-> <<t, group[i].op, group[i].mb>>]

\* The <<step, op, micro batch>> of the instructions of kind op in the
\* schedule of stage s, in order.
RECURSIVE OnlyOp(_, _)
OnlyOp(seq, op) ==
    IF seq = <<>> THEN <<>>
    ELSE (IF Head(seq)[2] = op THEN <<<<Head(seq)[1], Head(seq)[3]>>>> ELSE <<>>)
         \o OnlyOp(Tail(seq), op)

P2PSeq(s, op) ==
    OnlyOp(Flatten([t \in 1..(2 * (micro_batches + stages - 1)) |-> GroupAt(s, t - 1)]),
           op)

NoStageStuck ==
    /\ \A s \in StageIds : train_pc[s] \in {"idle", "running"}
    /\ PipelineDone \/ ENABLED NextPipeline

\* C2: for adjacent stages s, s+1 the SendActivation of s and the
\* RecvActivation of s+1, and the SendGrad of s+1 and the RecvGrad of s, are
\* the same sequences of (step, micro batch); the instructions that meet on
\* a link are for the same micro batch of the same batch; and with blocking
\* send/recv no stage ever hangs, fails or waits forever: unless every stage
\* has finished all its batches, some stage can take a step.
C2_P2PPairingNoDeadlock ==
    /\ \A s \in StageIds : s + 1 \in StageIds =>
        /\ P2PSeq(s, SendActivation) = P2PSeq(s + 1, RecvActivation)
        /\ P2PSeq(s + 1, SendGrad) = P2PSeq(s, RecvGrad)
        /\ Len(P2PSeq(s, SendActivation)) = micro_batches
        /\ Len(P2PSeq(s, RecvGrad)) = micro_batches
        /\ (HeadIs(s, SendActivation) /\ HeadIs(s + 1, RecvActivation)) =>
            /\ Head(cmds[s]).mb = Head(cmds[s + 1]).mb
            /\ sched_step[s] = sched_step[s + 1]
            /\ global_steps[s] = global_steps[s + 1]
        /\ (HeadIs(s, RecvGrad) /\ HeadIs(s + 1, SendGrad)) =>
            /\ Head(cmds[s]).mb = Head(cmds[s + 1]).mb
            /\ sched_step[s] = sched_step[s + 1]
            /\ global_steps[s] = global_steps[s + 1]
    /\ NoStageStuck

C2_Witness ==
    /\ PipelineDone
    /\ stages = 3 /\ micro_batches = 3
    /\ p2p[1].recvs = 3 * MaxBatches /\ p2p[1].sends = 3 * MaxBatches
    /\ last_grad[0].n = 3 * MaxBatches /\ last_grad[1].n = 3 * MaxBatches

\* C6: on every link the metadata envelope is sent at most once, by the
\* first SendActivation, and received at most once, by the first
\* RecvActivation, which is the only one that allocates receive buffers;
\* after k SendActivation of n tensors the sender has sent one envelope and
\* k*n payload messages, and the receiver has received as many.
C6_MetadataOnce ==
    \A s \in StageIds :
        LET n == Len(output_layout) IN
        /\ p2p[s].meta_sent = (IF p2p[s].sends > 0 THEN 1 ELSE 0)
        /\ p2p[s].payload_sent = p2p[s].sends * n
        /\ p2p[s].meta_recvd = (IF p2p[s].recvs > 0 THEN 1 ELSE 0)
        /\ p2p[s].recv_allocs = p2p[s].meta_recvd
        /\ p2p[s].payload_recvd = p2p[s].recvs * n
        /\ sent_activation_meta[s] = (p2p[s].sends > 0)
        /\ activation_recv_buf[s].alloc = (p2p[s].recvs > 0)
        /\ s + 1 \in StageIds =>
            /\ p2p[s].sends = p2p[s + 1].recvs
            /\ p2p[s].payload_sent = p2p[s + 1].payload_recvd

C6_Witness ==
    /\ PipelineDone
    /\ stages = 2 /\ micro_batches = 3 /\ Len(output_layout) = 2
    /\ p2p[0].sends = 3 * MaxBatches
    /\ p2p[0].meta_sent = 1 /\ p2p[1].meta_recvd = 1
    /\ p2p[1].payload_recvd = 3 * MaxBatches * 2

SameAttributes(t, k) ==
    /\ t.shape = k.shape
    /\ t.dtype = k.dtype
    /\ t.requires_grad = k.requires_grad

\* C7: the receive buffers a stage allocates from the metadata are as many
\* as the tensors of the tuple the previous stage sent, the i-th with the
\* shape, dtype and requires_grad of the i-th sent tensor, and so are the
\* tensors placed in inputs[buffer_id] by recv_activations.
C7_MetadataRoundTrip ==
    \A r \in StageIds : r > 0 =>
        /\ activation_recv_buf[r].alloc =>
            /\ Len(activation_recv_buf[r].bufs) = Len(output_layout)
            /\ \A i \in 1..Len(output_layout) :
                SameAttributes(activation_recv_buf[r].bufs[i], output_layout[i])
        /\ \A b \in DOMAIN pipe_buffers[r].inputs :
            pipe_buffers[r].inputs[b].set =>
                /\ Len(pipe_buffers[r].inputs[b].tensors) = Len(output_layout)
                /\ \A i \in 1..Len(output_layout) :
                    SameAttributes(pipe_buffers[r].inputs[b].tensors[i],
                                   output_layout[i])

C7_Witness ==
    /\ stages = 2
    /\ Len(output_layout) = 2
    /\ output_layout[1].dtype = "float16" /\ output_layout[1].requires_grad
    /\ output_layout[2].dtype = "int64"
    /\ activation_recv_buf[1].alloc
    /\ pipe_buffers[1].inputs[1].set
    /\ pipe_buffers[1].inputs[1].tensors[1].requires_grad
    /\ pipe_buffers[1].inputs[1].tensors[2].shape = <<2>>

RECURSIVE ReqGradPositions(_, _)
ReqGradPositions(tensors, i) ==
    IF i > Len(tensors) THEN <<>>
    ELSE (IF tensors[i].requires_grad THEN <<i>> ELSE <<>>)
         \o ReqGradPositions(tensors, i + 1)

\* C8: in every gradient transfer on a link the gradients stage s+1 sends
\* are those of its input tensors with requires_grad, in tuple order, and
\* stage s receives them into buffers allocated for its output tensors with
\* requires_grad, in the same tuple order: same tuple positions, same
\* shapes and dtypes; a tensor without requires_grad is neither sent nor
\* given a buffer; as many gradient messages are sent as received.
C8_GradientFilterAgreement ==
    \A s \in StageIds : s + 1 \in StageIds =>
        /\ p2p[s + 1].grad_sent = p2p[s].grad_recvd
        /\ last_grad[s].n > 0 =>
            LET sent == last_grad[s].sent
                bufs == last_grad[s].bufs
                want == ReqGradPositions(output_layout, 1)
            IN
            /\ [i \in 1..Len(sent) |-> sent[i].pos] = want
            /\ [i \in 1..Len(bufs) |-> bufs[i].pos] = want
            /\ [i \in 1..Len(sent) |-> sent[i].pos]
                 = ReqGradPositions(activation_recv_buf[s + 1].bufs, 1)
            /\ \A i \in 1..Len(want) :
                /\ sent[i].shape = bufs[i].shape
                /\ sent[i].dtype = bufs[i].dtype
            /\ p2p[s].grad_allocs = 1
            /\ p2p[s].grad_recvd = last_grad[s].n * Len(want)

C8_Witness ==
    /\ stages = 2 /\ micro_batches = 2
    /\ Len(output_layout) = 2
    /\ ~output_layout[1].requires_grad /\ output_layout[2].requires_grad
    /\ last_grad[0].n = 2
    /\ Len(last_grad[0].sent) = 1 /\ last_grad[0].sent[1].pos = 2
    /\ Len(grad_recv_buf[0].bufs) = 1

\* ------------------------------------------------ engine properties
\* The watcher thread self.notification_receiver_thread refers to is alive.
WatcherAlive ==
    /\ notification_receiver_thread # 0
    /\ is_alive(watcher_pc[notification_receiver_thread])

\* execute has returned None from the wait loop at its top.
ReturnedNoResultOnFlag ==
    /\ eng_pc = "idle"
    /\ call.name = "execute"
    /\ call.result = "None (need_reconfiguration)"

\* C9: an execute that finds the reconfiguration flag set stays in the wait
\* loop while the watcher thread is alive and then returns None; it runs no
\* pipeline instruction, starts no watcher and leaves the flag set.
C9_ExecuteWaitsForWatcher ==
    /\ eng_pc = "exec_wait" =>
        /\ need_reconfiguration
        /\ notification_receiver_thread # 0
        /\ instr_done = 0
        /\ ~call.spawned
    /\ (call.name = "execute" /\ call.flag_at_call) =>
        \/ eng_pc \in {"exec_flag", "exec_wait"}
        \/ ReturnedNoResultOnFlag
    /\ ReturnedNoResultOnFlag =>
        /\ ~WatcherAlive
        /\ instr_done = 0
        /\ ~call.spawned
        /\ call.flag_at_return
        /\ need_reconfiguration

C9_Witness ==
    /\ ReturnedNoResultOnFlag
    /\ call.flag_at_call
    /\ call.blocked
    /\ watcher_pc[notification_receiver_thread] = "dead"

\* C10 as stated: when execute has returned None because of a teardown
\* error the iterator is invalidated and the reconfiguration flag is set;
\* when reconfigure has returned the flag is clear.
C10_Original ==
    /\ (eng_pc = "idle" /\ call.result = "None (teardown error)") =>
        /\ invalidated[cur_iter]
        /\ call.flag_at_return
    /\ (eng_pc = "idle" /\ call.result = "reconfigured") => ~call.flag_at_return

\* The last n outcomes of the caller's history (all of it when shorter).
LastReturned(n) ==
    IF Len(returned) <= n THEN returned
    ELSE SubSeq(returned, Len(returned) - n + 1, Len(returned))

\* Watcher thread i does event in this step.
WatcherDoes(i, event) ==
    /\ Len(watcher_log'[i]) = Len(watcher_log[i]) + 1
    /\ watcher_log'[i][Len(watcher_log'[i])] = event

\* The principal is inside the pipeline run of an execute call.
InsideBatch == eng_pc = "exec_run" /\ booster

\* C11 as stated: the communicator goes down only in a watcher's shutdown
\* step, and no watcher shuts it down while the principal is inside the
\* pipeline run of an execute call.
C11_Original ==
    [][ /\ (comm_up /\ ~comm_up') => \E i \in WatcherIds : WatcherDoes(i, "shutdown")
        /\ \A i \in WatcherIds : WatcherDoes(i, "shutdown") => ~InsideBatch
      ]_vars

\* C11 as amended: the communicator goes down only in the shutdown step of
\* the watcher thread the engine refers to, and that thread has set the
\* reconfiguration flag before and done nothing else; the principal may be
\* inside a batch at that moment.
C11_OnlyWatcherAfterFlag ==
    [][ (comm_up /\ ~comm_up') =>
          /\ notification_receiver_thread \in WatcherIds
          /\ WatcherDoes(notification_receiver_thread, "shutdown")
          /\ watcher_log[notification_receiver_thread] = <<"set flag">>
          /\ \A i \in WatcherIds \ {notification_receiver_thread} :
                watcher_log'[i] = watcher_log[i]
          /\ eng_pc' = eng_pc
      ]_vars

C11_Witness ==
    /\ InsideBatch
    /\ instr_done >= 1 /\ instr_done < BatchLen
    /\ call.spawned
    /\ watcher_log[notification_receiver_thread] = <<"set flag", "shutdown">>
    /\ ~comm_up
    /\ need_reconfiguration

\* The message begins with one of the two texts execute recovers from.
BeginsWithTeardownText(msg) ==
    \/ startswith(msg, "Default process group")
    \/ startswith(msg, "Connection closed")

\* The pipeline run of execute ends in this step.
LeavesBatch == eng_pc = "exec_run" /\ eng_pc' # "exec_run"

\* C12: an exception caught while the pipeline runs becomes "return None"
\* with the iterator marked invalidated exactly when its message begins with
\* "Default process group" or "Connection closed"; any other exception is
\* re-raised and the invalidated marks and the flag stay as they were.
C12_ErrorClassification ==
    [][ LeavesBatch =>
          /\ eng_pc' = "idle"
          /\ call'.error = NoError => call'.result = "result"
          /\ call'.error # NoError =>
               IF BeginsWithTeardownText(call'.error)
               THEN /\ call'.result = "None (teardown error)"
                    /\ invalidated' = [invalidated EXCEPT ![cur_iter] = TRUE]
               ELSE /\ call'.result = "raise"
                    /\ invalidated' = invalidated
                    /\ need_reconfiguration' = need_reconfiguration
      ]_vars

C12_Witness ==
    /\ eng_pc = "idle"
    /\ call.result = "raise"
    /\ call.error = <<"NCCL error: ", "Connection closed">>
    /\ ~invalidated[cur_iter]
    /\ \E it \in IteratorIds : it # cur_iter /\ invalidated[it]
    /\ \E k \in 1..Len(returned) : returned[k] = "None (teardown error)"

\* The caller's last three completed calls were: an execute that ran its
\* batch, an execute that returned None at its top, and reconfigure.
RoundTrip ==
    LastReturned(3) =
        <<"result", "None (need_reconfiguration)", "reconfigured">>

\* C13: after an execute that ran its batch, an execute that finds the flag
\* set returns None without running an instruction; after that and a
\* reconfigure the flag is clear and no watcher is alive, and the next
\* execute with an iterator that is not invalidated never waits, starts a
\* fresh watcher and, unless an exception is caught, runs every instruction
\* of its batch and returns its result.
C13_ReconfigurationRoundTrip ==
    /\ [](RoundTrip =>
            /\ eng_pc = "idle" => ~need_reconfiguration /\ ~WatcherAlive
            /\ eng_pc # "exec_wait"
            /\ eng_pc = "exec_run" =>
                /\ call.spawned
                /\ watcher_log[notification_receiver_thread] = <<>>
                     \/ call.flag_at_call = FALSE)
    /\ [][ /\ ( /\ LastReturned(1) = <<"result">>
                /\ call.name = "execute" /\ call.flag_at_call
                /\ eng_pc # "idle" /\ eng_pc' = "idle" )
              => /\ call'.result = "None (need_reconfiguration)"
                 /\ instr_done' = 0
           /\ ( /\ RoundTrip
                /\ call.name = "execute" /\ ~invalidated[cur_iter]
                /\ eng_pc # "idle" /\ eng_pc' = "idle" )
              => /\ call'.spawned
                 /\ call'.error = NoError =>
                      /\ call'.result = "result"
                      /\ instr_done' = BatchLen
      ]_vars

C13_Witness ==
    /\ RoundTrip
    /\ eng_pc = "exec_run"
    /\ instr_done = BatchLen
    /\ call.spawned
    /\ notification_receiver_thread = 2
    /\ watcher_pc[1] = "dead" /\ watcher_pc[2] = "waiting"

\* C14: a flag set while a batch is in progress does not stop the batch:
\* the next instruction, or the return of the result, stays possible; the
\* instructions done never go back; and an execute that leaves its batch
\* without having caught an exception has run every instruction, returns
\* the result and leaves the flag as the watcher set it.
C14_FlagObservedOnlyAtTop ==
    /\ []((InsideBatch /\ need_reconfiguration) =>
            /\ instr_done < BatchLen => ENABLED ExecPipelineStep
            /\ instr_done = BatchLen => ENABLED ExecPipelineReturn)
    /\ [][ /\ (eng_pc = "exec_run" /\ eng_pc' = "exec_run") =>
                instr_done' >= instr_done
           /\ (LeavesBatch /\ call'.error = NoError) =>
                /\ call'.result = "result"
                /\ instr_done' = BatchLen
                /\ need_reconfiguration' = need_reconfiguration
                /\ invalidated' = invalidated
      ]_vars

C14_Witness ==
    /\ eng_pc = "idle"
    /\ call.name = "execute" /\ call.result = "result"
    /\ ~call.flag_at_call /\ call.flag_at_return
    /\ call.spawned
    /\ watcher_log[notification_receiver_thread] # <<>>
    /\ instr_done = BatchLen

\* The watcher threads that are alive.
AliveWatchers == {i \in WatcherIds : is_alive(watcher_pc[i])}

\* C15: at most one watcher thread is alive, the one the engine refers to;
\* execute starts a thread only when no thread is alive.
C15_AtMostOneWatcher ==
    /\ [](/\ Cardinality(AliveWatchers) <= 1
          /\ AliveWatchers \subseteq {notification_receiver_thread})
    /\ [][ notification_receiver_thread' # notification_receiver_thread =>
             /\ AliveWatchers = {}
             /\ eng_pc = "exec_spawn"
      ]_vars

C15_Witness ==
    /\ notification_receiver_thread = 2
    /\ watcher_pc[1] = "dead"
    /\ is_alive(watcher_pc[2])
    /\ "reconfigured" \in {returned[k] : k \in 1..Len(returned)}

\* What a watcher thread does once notified, in order.
WatcherSteps == <<"set flag", "shutdown", "exit">>

\* C16: what each watcher thread has done is a prefix of: set the flag, shut
\* the communicator down, exit; a terminated thread has done all three; the
\* step that sets the flag leaves it set and the shutdown step leaves the
\* communicator down; a thread acts only after a failure.
C16_WatcherOrder ==
    /\ [](\A i \in WatcherIds :
            /\ Len(watcher_log[i]) <= Len(WatcherSteps)
            /\ watcher_log[i] = SubSeq(WatcherSteps, 1, Len(watcher_log[i]))
            /\ watcher_pc[i] = "dead" => watcher_log[i] = WatcherSteps
            /\ watcher_log[i] # <<>> => failures > 0)
    /\ [][ \A i \in WatcherIds :
             /\ WatcherDoes(i, "set flag") => need_reconfiguration'
             /\ WatcherDoes(i, "shutdown") => ~comm_up'
             /\ watcher_log'[i] # watcher_log[i] =>
                    \E e \in {"set flag", "shutdown", "exit"} : WatcherDoes(i, e)
      ]_vars

C16_Witness ==
    \E i \in WatcherIds :
        /\ watcher_pc[i] = "dead"
        /\ watcher_log[i] = WatcherSteps
        /\ need_reconfiguration
        /\ ~comm_up

\* C17: an execute that reaches the test of the iterator with the iterator
\* marked invalidated raises the error that asks for a new iterator, having
\* run no instruction and started no watcher; past that test the iterator
\* of the call is not marked; and a mark, once set, stays, whatever is
\* called afterwards.
C17_InvalidatedIteratorRaises ==
    /\ [](eng_pc \in {"exec_spawn", "exec_run"} => ~invalidated[cur_iter])
    /\ [][ /\ ( /\ eng_pc = "exec_iter" /\ invalidated[cur_iter]
                /\ eng_pc' # "exec_iter" )
              => /\ eng_pc' = "idle"
                 /\ call'.result = "RuntimeError: iterator invalidated"
                 /\ instr_done' = 0
                 /\ ~call'.spawned
                 /\ notification_receiver_thread' = notification_receiver_thread
           /\ \A it \in IteratorIds : invalidated[it] => invalidated'[it]
      ]_vars

C17_Witness ==
    /\ eng_pc = "idle"
    /\ call.name = "execute"
    /\ ~call.flag_at_call
    /\ LastReturned(3) = <<"None (teardown error)", "reconfigured",
                           "RuntimeError: iterator invalidated">>
    /\ invalidated[cur_iter]
    /\ instr_done = 0

\* A call of prepare completes in this step.
PrepareCompletes ==
    /\ eng_pc = "idle" /\ eng_pc' = "idle"
    /\ call'.name = "prepare"
    /\ returned' = Remember(call'.result)
    /\ <<call, returned, dist_initialized, pipeline_templates>> #
       <<call', returned', dist_initialized', pipeline_templates'>>

\* C20: a prepare made after a prepare that succeeded raises an error and
\* leaves the templates, the templates handed to the instantiator and the
\* booster as they were; prepare succeeds only when no templates are set.
C20_PrepareOnce ==
    [][ PrepareCompletes =>
          /\ pipeline_templates.set =>
                /\ call'.result \in {"AssertionError",
                                     "RuntimeError: already initialized"}
                /\ pipeline_templates' = pipeline_templates
                /\ handed' = handed
                /\ booster' = booster
          /\ call'.result = "prepared" => ~pipeline_templates.set
      ]_vars

C20_Witness ==
    /\ eng_pc = "idle"
    /\ call.name = "prepare"
    /\ LastReturned(2) = <<"prepared", "AssertionError">>
    /\ pipeline_templates.set
    /\ booster

\* ------------------------------------------------ pipeline properties (2)
\* C18: the global step counter of a stage changes only in the step that
\* ends a train() run whose schedule is exhausted and whose instructions are
\* all done, and then by one; the samples logs of the batches a stage has
\* completed are written under pairwise different global step numbers, one
\* log per batch.
C18_GlobalStepPerBatch ==
    /\ [](\A s \in StageIds :
            /\ Len(samples_log[s]) = global_steps[s]
            /\ \A j, k \in 1..Len(samples_log[s]) :
                    j # k => samples_log[s][j] # samples_log[s][k])
    /\ [][ \A s \in StageIds :
             global_steps'[s] # global_steps[s] =>
                /\ global_steps'[s] = global_steps[s] + 1
                /\ train_pc[s] = "running" /\ train_pc'[s] = "idle"
                /\ cmds[s] = <<>>
                /\ sched_step[s] = 2 * (micro_batches + stages - 1)
                /\ samples_log'[s] = Append(samples_log[s], global_steps'[s])
      ]_vars

C18_Witness ==
    /\ stages >= 2 /\ micro_batches >= 2
    /\ \A s \in StageIds :
        /\ train_pc[s] = "idle"
        /\ global_steps[s] = 2
        /\ samples_log[s] = <<1, 2>>

\* Stage s completes the instruction op at the head of its step group in
\* this step.
Completes(s, op) ==
    /\ HeadIs(s, op)
    /\ train_pc'[s] = "running"
    /\ cmds'[s] = Tail(cmds[s])

\* Stage s is between batches, having run at least one.
BatchEnded(s) == train_pc[s] = "idle" /\ global_steps[s] >= 1

\* C19: a completed BackwardPass leaves the outputs slot of its buffer
\* empty and a completed SendGrad leaves the inputs slot of its buffer
\* empty; at the end of a batch every outputs slot of the stage is empty,
\* and every inputs slot too unless the stage is the first one, which never
\* has a SendGrad to run.
C19_SlotsCleared ==
    /\ [](\A s \in StageIds :
            /\ BatchEnded(s) =>
                \A b \in DOMAIN pipe_buffers[s].outputs :
                    /\ pipe_buffers[s].outputs[b] = NoneSlot
                    /\ s # 0 => pipe_buffers[s].inputs[b] = NoneSlot
            /\ s = 0 => \A k \in 1..Len(cmds[s]) : cmds[s][k].op # SendGrad)
    /\ [][ \A s \in StageIds :
             /\ Completes(s, BackwardPass) =>
                  pipe_buffers'[s].outputs[Head(cmds[s]).buffer_id] = NoneSlot
             /\ Completes(s, SendGrad) =>
                  pipe_buffers'[s].inputs[Head(cmds[s]).buffer_id] = NoneSlot
      ]_vars

C19_Witness ==
    /\ stages = 3 /\ micro_batches >= 2
    /\ \A s \in StageIds : BatchEnded(s) /\ global_steps[s] = MaxBatches
    /\ pipe_buffers[0].inputs[0].set
    /\ p2p[1].grad_sent > 0


\* ------------------------------------------------ engine properties (3)
\* A step in which a call of prepare completes.
PrepareStep ==
    /\ eng_pc = "idle" /\ eng_pc' = "idle"
    /\ call'.name = "prepare"
    /\ <<call, returned, dist_initialized>>' # <<call, returned, dist_initialized>>

\* The outcomes of prepare that are errors.
PrepareErrors ==
    {"AssertionError", "RuntimeError: already initialized",
     "RuntimeError: no pipeline templates"}

Executed(s) ==
    LET yield == Flatten([t \in 1..sched_step[s] |->
                    StepCmds(micro_batches, stages, s, t - 1,
                             IF t = 1 THEN -1
                             ELSE _step_to_micro_batch(stages, s, t - 2)[1])])
    IN SubSeq(yield, 1, Len(yield) - Len(cmds[s]))

\* Stage s has completed instruction op of micro batch m in this run.
Done(s, op, m) ==
    \E i \in 1..Len(Executed(s)) :
        Executed(s)[i].op = op /\ Executed(s)[i].mb = m

\* The slot holds the data of micro batch m of the batch stage s is running.
HoldsOwn(slot, s, m) ==
    slot.set /\ slot.mb = m /\ slot.batch = global_steps[s]

\* The instruction writes inputs[buffer_id] on stage s.
WritesInputs(s, op) ==
    op = RecvActivation \/ (op = LoadMicroBatch /\ is_first_stage(s))

\* C22: no slot is overwritten while in flight.  When a RecvActivation, or
\* a LoadMicroBatch of the first stage, writes inputs[b], every micro batch
\* that occupied b earlier in the batch has finished its BackwardPass and,
\* off the first stage, its SendGrad; when a ForwardPass writes outputs[b],
\* every earlier occupant has finished its SendActivation and BackwardPass;
\* every instruction that reads a slot finds the data of its own micro
\* batch of the running batch; and no stage fails or hangs.
C22_BufferIntegrity ==
    /\ [](\A s \in StageIds : train_pc[s] \in {"idle", "running"})
    /\ [][ \A s \in StageIds : \A op \in {SendGrad, RecvActivation, RecvGrad,
                                          SendActivation, LoadMicroBatch,
                                          ForwardPass, BackwardPass} :
             Completes(s, op) =>
               LET cmd == Head(cmds[s])
                   b == cmd.buffer_id
                   inputs == pipe_buffers[s].inputs[b]
                   outputs == pipe_buffers[s].outputs[b]
                   earlier == {m \in 0..(micro_batches - 1) :
                                 /\ m # cmd.mb
                                 /\ _buffer_idx(micro_batches, stages, s, m) = b}
               IN
               /\ b = _buffer_idx(micro_batches, stages, s, cmd.mb)
               /\ b \in DOMAIN pipe_buffers[s].inputs
               /\ WritesInputs(s, op) =>
                    /\ \A m \in earlier :
                         (Done(s, RecvActivation, m) \/ Done(s, LoadMicroBatch, m)) =>
                            /\ Done(s, BackwardPass, m)
                            /\ ~is_first_stage(s) => Done(s, SendGrad, m)
                    /\ HoldsOwn(pipe_buffers'[s].inputs[b], s, cmd.mb)
               /\ op = ForwardPass =>
                    /\ HoldsOwn(inputs, s, cmd.mb)
                    /\ ~is_last_stage(s) =>
                         /\ \A m \in earlier :
                              Done(s, ForwardPass, m) =>
                                 /\ Done(s, SendActivation, m)
                                 /\ Done(s, BackwardPass, m)
                         /\ HoldsOwn(pipe_buffers'[s].outputs[b], s, cmd.mb)
               /\ op \in {SendActivation, RecvGrad} => HoldsOwn(outputs, s, cmd.mb)
               /\ op = BackwardPass =>
                    /\ HoldsOwn(inputs, s, cmd.mb)
                    /\ ~is_last_stage(s) => HoldsOwn(outputs, s, cmd.mb)
               /\ op = SendGrad => HoldsOwn(inputs, s, cmd.mb)
      ]_vars

\* Two stages, three micro batches, two slots each: micro batch 2 is in
\* slot 0 of both stages, which micro batch 0 occupied before.
C22_Witness ==
    /\ stages = 2 /\ micro_batches = 3
    /\ Done(0, BackwardPass, 0) /\ Done(1, SendGrad, 0)
    /\ HoldsOwn(pipe_buffers[0].inputs[0], 0, 2)
    /\ HoldsOwn(pipe_buffers[0].outputs[0], 0, 2)
    /\ HoldsOwn(pipe_buffers[1].inputs[0], 1, 2)
    /\ global_steps[0] = 1

\* The micro batch of the last instruction of kind op in seq, -1 if none.
LastOf(seq, op) ==
    LET at == {i \in 1..Len(seq) : seq[i].op = op} IN
    IF at = {} THEN -1
    ELSE seq[CHOOSE i \in at : \A k \in at : k <= i].mb

\* C23: the single-slot state a BackwardPass consumes belongs to its micro
\* batch.  On the last stage the last ForwardPass before BackwardPass(m) is
\* ForwardPass(m), and the loss is that of m; on every other stage the last
\* RecvGrad before BackwardPass(m) is RecvGrad(m), and the gradient receive
\* buffer holds the gradients the next stage computed for m.
C23_SingleSlotState ==
    [][ \A s \in StageIds :
          Completes(s, BackwardPass) =>
            LET m == Head(cmds[s]).mb IN
            IF is_last_stage(s)
            THEN /\ LastOf(Executed(s), ForwardPass) = m
                 /\ HoldsOwn(loss[s], s, m)
            ELSE /\ LastOf(Executed(s), RecvGrad) = m
                 /\ grad_recv_buf[s].alloc
                 /\ grad_recv_buf[s].mb = m
                 /\ grad_recv_buf[s].batch = global_steps[s]
      ]_vars

\* Both stages of a two-stage pipeline have run the BackwardPass of micro
\* batch 1, after that of micro batch 0, in the second batch.
C23_Witness ==
    /\ stages = 2 /\ micro_batches >= 2
    /\ global_steps[0] = 1 /\ global_steps[1] = 1
    /\ Done(1, BackwardPass, 1) /\ loss[1].mb = 1 /\ loss[1].batch = 1
    /\ Done(0, BackwardPass, 1)
    /\ grad_recv_buf[0].mb = 1 /\ grad_recv_buf[0].batch = 1

\* C26: LoadMicroBatch is only ever scheduled on a stage that is first or
\* last, so load_microbatch never fails its assertion; on a last stage that
\* is not the first it comes right after the RecvActivation of the same
\* micro batch and leaves every slot, inputs[buffer_id] with the received
\* activations included, and the dataloader iterator as they are; the
\* iterator advances only in a LoadMicroBatch of the first stage, by one,
\* which makes M advances per batch.
C26_LoadMicroBatch ==
    /\ [](\A s \in StageIds :
            /\ \A k \in 1..Len(cmds[s]) :
                 cmds[s][k].op = LoadMicroBatch =>
                    is_first_stage(s) \/ is_last_stage(s)
            /\ train_pc[s] # "raised"
            /\ (is_first_stage(s) /\ train_pc[s] = "idle") =>
                 data_iterator = micro_batches * global_steps[s]
            /\ (is_first_stage(s) /\ train_pc[s] = "running") =>
                 data_iterator = micro_batches * global_steps[s]
                                 + CountOp(Executed(s), LoadMicroBatch))
    /\ [][ /\ \A s \in StageIds :
                Completes(s, LoadMicroBatch) =>
                    LET cmd == Head(cmds[s]) IN
                    IF is_first_stage(s)
                    THEN /\ data_iterator' = data_iterator + 1
                         /\ HoldsOwn(pipe_buffers'[s].inputs[cmd.buffer_id],
                                     s, cmd.mb)
                    ELSE /\ is_last_stage(s)
                         /\ UNCHANGED <<pipe_buffers, data_iterator>>
                         /\ HoldsOwn(pipe_buffers[s].inputs[cmd.buffer_id],
                                     s, cmd.mb)
                         /\ Executed(s) # <<>>
                         /\ Executed(s)[Len(Executed(s))] =
                                Instr(RecvActivation, cmd.buffer_id, cmd.mb)
           /\ data_iterator' # data_iterator =>
                \E s \in StageIds :
                    is_first_stage(s) /\ Completes(s, LoadMicroBatch)
      ]_vars

\* The last of three stages has run the LoadMicroBatch of micro batch 1 on
\* the activations it received, and the first stage has loaded two batches.
C26_Witness ==
    /\ stages = 3 /\ micro_batches = 2
    /\ Done(2, LoadMicroBatch, 1) /\ ~Done(2, ForwardPass, 1)
    /\ HoldsOwn(pipe_buffers[2].inputs[1], 2, 1)
    /\ pipe_buffers[2].inputs[1].tensors # PreparedBatch
    /\ data_iterator = 2

\* ------------------------------------------------ engine properties (4)
\* The outcomes of execute that return None for the caller to reconfigure.
NoResults == {"None (need_reconfiguration)", "None (teardown error)"}

\* C24 as stated: whenever execute has returned None, on the flag path or
\* on the teardown-error path, no watcher thread is alive; and once the
\* reconfigure that follows such a return has returned, no watcher sets the
\* reconfiguration flag or shuts a communicator down until execute is
\* called again.
C24_Original ==
    /\ []((eng_pc = "idle" /\ call.name = "execute" /\ call.result \in NoResults)
            => \A i \in WatcherIds : ~is_alive(watcher_pc[i]))
    /\ [][ (/\ eng_pc = "idle"
            /\ Len(returned) >= 2
            /\ LastReturned(2)[1] \in NoResults
            /\ LastReturned(2)[2] = "reconfigured")
           => \A i \in WatcherIds :
                ~WatcherDoes(i, "set flag") /\ ~WatcherDoes(i, "shutdown")
      ]_vars

\* ------------------------------------------------ constructor properties
\* __init__ has run to its end, by return or by exception, in a process
\* whose rank is in the pipeline's rank list.
Constructed ==
    /\ init_pc \in {"returned", "raised"}
    /\ get_rank \in {init_args.ranks[i] : i \in 1..Len(init_args.ranks)}

\* C25 as stated: for a rank at index i of the list of S*g ranks, __init__
\* sets prev_rank to ranks[i-g] when i >= g and to None otherwise, next_rank
\* to ranks[i+g] when i < S*g - g and to None otherwise, and builds the
\* schedule for a stage that has a previous stage exactly when prev_rank is
\* present and a next stage exactly when next_rank is present.
C25_Original ==
    Constructed =>
        LET ranks == init_args.ranks
            g == init_args.num_gpus_per_node
            S == Len(init_args.template_stages)
            i == index(ranks, get_rank)
        IN
        /\ init_pc = "returned"
        /\ self_attrs["prev_rank"] =
                (IF i >= g THEN Some(ranks[(i - g) + 1]) ELSE None)
        /\ self_attrs["next_rank"] =
                (IF i < S * g - g THEN Some(ranks[(i + g) + 1]) ELSE None)
        /\ LET s == self_attrs["train_schedule"].stage_id IN
            /\ _valid_stage(S, s - 1) <=> self_attrs["prev_rank"] # None
            /\ _valid_stage(S, s + 1) <=> self_attrs["next_rank"] # None

\* ------------------------------------------------ engine properties (5)
\* Watcher thread i has received a failure notification.
Notified(i) == watcher_pc[i] = "notified"

\* Watcher thread i has set the flag, shut the communicator down and
\* terminated, in this order.
Finished(i) ==
    /\ watcher_pc[i] = "dead"
    /\ watcher_log[i] = <<"set flag", "shutdown", "exit">>

\* The principal is in the wait loop at the top of execute.
InWaitLoop == eng_pc = "exec_wait"

\* C27 as stated: every notification a watcher receives is followed by the
\* flag being set, the communicator shut down and the watcher's exit; the
\* wait loop at the top of execute always ends, execute then returning
\* None; and the flag is never set while there is no watcher thread object.
C27_Original ==
    /\ \A i \in WatcherIds : Notified(i) ~> Finished(i)
    /\ InWaitLoop ~> ReturnedNoResultOnFlag
    /\ [](need_reconfiguration => notification_receiver_thread # 0)
====
